---- MODULE Spec2Model ----
(***************************************************************************)
(* Remote session proxy of gestionnaire-ssh: the WebSocket gateways        *)
(* (ws.Handler.ServeHTTP, sftp.Handler.ServeHTTP), the terminal engine     *)
(* (ssh.Proxy.HandleConnection) and the persistence calls they make.       *)
(* One behaviour is one HTTP request served by one of the two endpoints.   *)
(***************************************************************************)
EXTENDS Integers, Sequences, FiniteSets, TLC

VARIABLES
    kind,        \* endpoint serving the request: "ssh" (/ws/ssh) or "sftp" (/ws/sftp)
    user,        \* mw.GetUser(r): the authenticated user id, NoUser when absent
    pc,          \* position of the request's own goroutine
    defers,      \* its pending deferred calls, innermost last
    httpStatus,  \* status written by http.Error, 0 when none
    ctxDone,     \* r.Context() is done (middleware.Timeout deadline passed)
    payload,     \* the decoded connect payload (ConnectPayload / connectPayload)
    heap,        \* byte buffers backing Go strings, by address
    credential,  \* the local string `credential` (ssh) / `cred` (sftp): a string header
    authCred,    \* the string held by the gossh.Password auth method
    host,        \* result of db.GetHostByID
    out,         \* WriteMessage calls made on the client stream, in order
    dialled,     \* gossh.Dial calls made: <<address, user>> in order
    remote,      \* the remote side: connection, session or subsystem, pty, stdin, home
    sessions,    \* the sessions table
    sessionID,   \* p.sessionID
    dbCloses,    \* db.CloseSession calls made: <<session id, succeeded>>
    hc,          \* HandleConnection: "none", "running", "returned"
    ws,          \* the client stream: "none", "open", "closed" (conn.Close ran)
    cancelled,   \* cancel() of ctx2 has been called
    gor,         \* the stdout and stderr forwarder goroutines: position and buffer
    produced,    \* chunks the remote shell has delivered so far, per stream
    inbox,       \* client messages the engine loop has read so far
    first,       \* envelope of the first message the gateway read, NoMsg before
    msg,         \* the message the current loop iteration decoded, NoMsg when none
    writeMu,     \* holder of the stream's write mutex, "" when unlocked
    callers,     \* per goroutine: its position inside send and the calls it completed
    clock,       \* time.Now() of the auth package, in ticks of 15 seconds
    usedCodes,   \* auth.usedCodes: "secret:code" key -> expiry time
    totpCall,    \* per caller of ValidateTOTP: its position and arguments
    accepts,     \* per key, the times at which ValidateTOTP returned true
    cleanupOn,   \* cleanupOnce has started the cleanup goroutine
    held,        \* the tokens the server has issued to the client
    verified,    \* the users for whom Verify has validated a one-time code
    served,      \* the users in whose name a route behind Authenticate was served
    cfgAllowedOrigins, \* cfg.AllowedOrigins, <<>> until config.Load has run
    origins,     \* the allowedOrigins of both handlers, <<>> until NewRouter has run
    reqOrigin,   \* r.Header.Get("Origin") of the upgrade request
    upgrade,     \* "none", "pending", then "allowed" or "refused"
    frames,      \* protocol messages exchanged on the upgraded connection
    getwd,       \* what the remote answered to sftpClient.Getwd()
    homeDir,     \* home of the file-transfer engine, "" until connected
    lsReq,       \* the ls request in hand, NoLs when none
    lsResult,    \* the engine's answer to the last ls request
    pageEntries, \* the entries the file page holds after onLSResult
    remoteFs,    \* the remote file system: what each path holds
    xferReq,     \* the put or rm request in hand, NoXfer when none
    xferOut,     \* the message answering it, <<>> until it is answered
    sftpCalls,   \* the calls made on the SFTP client for it, with their outcome
    setupPc,     \* position of handleSetupSubmit: "form", "enable", "verify", "loggedIn", "error"
    setupCode,   \* the code typed in the setup form
    totpEnabled, \* users.totp_enabled of the user setting up
    setupStatus, \* HTTP status of the last answer to the page, 0 when none
    accounts,    \* the rows of the users table
    acctCall,    \* per Init or Register request: its position and its HTTP status
    delCall,     \* per DeleteUser request: its position, caller, target and HTTP status
    createdByInit, \* the number of accounts Init has created
    deleted,     \* the <<caller, target>> pairs of the deletions done
    rlNow,       \* time.Now() of the rate limiter, in ticks
    requests,    \* rl.requests: per address, the timestamps kept
    allowedAt,   \* per address, the times at which allow returned true
    rlResult,    \* the address and the result of the last call of allow
    reqSt,       \* per request of the page: its position and its _retry flag
    isRefreshing, \* isRefreshing of the API client
    queue,       \* the callbacks waiting for the new token, by request, oldest first
    rfSt,        \* the refresh call: "none", "sent", "queued", "ok" or "failed"
    refresher,   \* the request whose handler awaits the refresh call, "" when none
    loggedOut    \* logout() was called and the page sent to /login

vars == <<kind, user, pc, defers, httpStatus, ctxDone, payload, heap, credential,
          authCred, host, out, dialled, remote, sessions, sessionID, dbCloses, hc,
          ws, cancelled, gor, produced, inbox, first, msg, writeMu, callers,
          clock, usedCodes, totpCall, accepts, cleanupOn, held, verified, served,
          cfgAllowedOrigins, origins, reqOrigin, upgrade, frames,
          getwd, homeDir, lsReq, lsResult, pageEntries,
          remoteFs, xferReq, xferOut, sftpCalls,
          setupPc, setupCode, totpEnabled, setupStatus,
          accounts, acctCall, delCall, createdByInit, deleted,
          rlNow, requests, allowedAt, rlResult,
          reqSt, isRefreshing, queue, rfSt, refresher, loggedOut>>

\* The variables of the streaming phase.
streamVars == <<cancelled, gor, produced, inbox>>

\* The variables of the write path of one stream, stepped on their own in
\* SendSpec.
sendVars == <<writeMu, callers>>

\* The variables of the one-time code check, stepped on their own in TotpSpec.
totpVars == <<clock, usedCodes, totpCall, accepts, cleanupOn>>

\* The variables of the login flow, stepped on their own in AuthSpec.
authVars == <<held, verified, served>>

\* The variables of the origin check, stepped on their own in OriginSpec.
originVars == <<cfgAllowedOrigins, origins, reqOrigin, upgrade, frames>>

\* The variables of the directory listing, stepped on their own in FileSpec.
fileVars == <<getwd, homeDir, lsReq, lsResult, pageEntries>>

\* The variables of the put and rm requests, stepped on their own in TransferSpec.
xferVars == <<remoteFs, xferReq, xferOut, sftpCalls>>

\* The variables of the mandatory two-factor setup, stepped with the clock and the used codes in SetupSpec.
setupVars == <<setupPc, setupCode, totpEnabled, setupStatus>>

\* The variables of the users table and of the requests that change it, stepped on their own in AccountsSpec.
acctVars == <<accounts, acctCall, delCall, createdByInit, deleted>>

\* The variables of the rate limiter, stepped on their own in RateSpec.
rateVars == <<rlNow, requests, allowedAt, rlResult>>

\* The variables of the API client of the browser, stepped on their own in AxiosSpec.
axiosVars == <<reqSt, isRefreshing, queue, rfSt, refresher, loggedOut>>

\* The variables the request's steps leave alone.
otherVars == <<sendVars, totpVars, authVars, originVars, fileVars, xferVars, setupVars,
              acctVars,
              rateVars,
              axiosVars>>

\* The variables of the request's steps.
requestVars == <<kind, user, pc, defers, httpStatus, ctxDone, payload, heap,
                 credential, authCred, host, out, dialled, remote, sessions,
                 sessionID, dbCloses, hc, ws, streamVars, first, msg>>

\* What the steps of each other specification leave alone.
sendRest == <<requestVars, totpVars, authVars, originVars, fileVars, xferVars, setupVars,
    acctVars,
    rateVars,
    axiosVars>>
totpRest == <<requestVars, sendVars, authVars, originVars, fileVars, xferVars, setupVars,
    acctVars,
    rateVars,
    axiosVars>>
authRest == <<requestVars, sendVars, totpVars, originVars, fileVars, xferVars, setupVars,
    acctVars,
    rateVars,
    axiosVars>>
originRest == <<requestVars, sendVars, totpVars, authVars, fileVars, xferVars, setupVars,
    acctVars,
    rateVars,
    axiosVars>>
fileRest == <<requestVars, sendVars, totpVars, authVars, originVars, xferVars, setupVars,
    acctVars,
    rateVars,
    axiosVars>>
xferRest == <<requestVars, sendVars, totpVars, authVars, originVars, fileVars, setupVars,
    acctVars,
    rateVars,
    axiosVars>>
\* The setup flow steps the clock and the used codes itself.
setupRest == <<requestVars, sendVars, authVars, originVars, fileVars, xferVars,
    acctVars,
    rateVars,
    axiosVars>>
acctRest == <<requestVars, sendVars, totpVars, authVars, originVars, fileVars, xferVars, setupVars,
    rateVars,
    axiosVars>>
rateRest == <<requestVars, sendVars, totpVars, authVars, originVars, fileVars, xferVars, setupVars, acctVars,
    axiosVars>>
axiosRest == <<requestVars, sendVars, totpVars, authVars, originVars, fileVars, xferVars, setupVars, acctVars, rateVars>>

(***************************************************************************)
(* Data                                                                    *)
(***************************************************************************)
\* Client messages the engine loop reads on one connection.
MaxClientMsgs == 2

NoUser == ""
Users == {"u1", "u2"}

\* Rows of the hosts table (models.Host, the columns the proxy reads).
HostsTable ==
    { [ID |-> "h1", UserID |-> "u1", Name |-> "web", Hostname |-> "10.0.0.1",
       Port |-> 22, Username |-> "root", AuthType |-> "password"],
      [ID |-> "h2", UserID |-> "u2", Name |-> "db", Hostname |-> "10.0.0.2",
       Port |-> 2222, Username |-> "admin", AuthType |-> "key"],
      [ID |-> "h3", UserID |-> "u1", Name |-> "old", Hostname |-> "10.0.0.3",
       Port |-> 22, Username |-> "root", AuthType |-> "agent"] }

NoHost == [ID |-> "", UserID |-> "", Name |-> "", Hostname |-> "",
           Port |-> 0, Username |-> "", AuthType |-> ""]

\* Host ids a client may ask for: the three rows and one id of no row.
HostIDs == {"h1", "h2", "h3", "h9"}

\* Credential strings a client may send, as byte sequences (no zero byte).
PasswordBytes == <<7, 8>>
KeyBytes == <<5, 6, 9>>
GarbageBytes == <<3>>
CredentialInputs == {PasswordBytes, KeyBytes, GarbageBytes}

\* A Go string value: data pointer (an address of heap) and length.
EmptyString == [ptr |-> 0, len |-> 0]

\* The bytes a string header reads.
StrRead(h, s) == IF s.len = 0 THEN <<>> ELSE SubSeq(h[s.ptr], 1, s.len)

IsZeroed(bytes) == \A i \in 1..Len(bytes) : bytes[i] = 0

\* A new string holding `bytes`: its header, allocated at the end of the heap.
NewString(h, bytes) ==
    IF Len(bytes) = 0 THEN EmptyString ELSE [ptr |-> Len(h) + 1, len |-> Len(bytes)]

Alloc(h, bytes) == IF Len(bytes) = 0 THEN h ELSE Append(h, bytes)

NoPayload == [HostID |-> "", Credential |-> EmptyString, Cols |-> 0, Rows |-> 0]

\* Sessions table, rows in insertion order; row i has id SessionIDs[i].
\* ended_at is NULL (FALSE) or set (TRUE); updates counts the UPDATEs that
\* set it; mine marks the rows inserted while serving this request. The
\* table starts with the closed record of an earlier connection.
SessionIDs == <<"s1", "s2", "s3">>
OldSession == [user_id |-> "u2", host_id |-> "h2", client_ip |-> "ip",
               ended_at |-> TRUE, updates |-> 1, mine |-> FALSE]
InitialSessions == <<OldSession>>

NoRemote == [client |-> "none", session |-> "none", pty |-> <<>>,
             shell |-> FALSE, stdin |-> <<>>, home |-> ""]

\* The remote shell's two output streams and what each delivers, in order.
Streams == {"stdout", "stderr"}
RemoteChunks == [stdout |-> <<"ab", "cd">>, stderr |-> <<"e1">>]

\* No message decoded (yet).
NoMsg == [json |-> FALSE, type |-> "none", payloadOK |-> FALSE]

\* The envelope of a received message: whether it is JSON, its type, and
\* whether its payload decodes.
Envelope(m) == [json |-> m.json, type |-> m.type, payloadOK |-> m.payloadOK]

\* The goroutines that write to one client stream: the request's own and the
\* two forwarders the terminal engine starts.
Goroutines == {"main", "stdout", "stderr"}


(* One-time codes (package auth). Time is counted in ticks of 15 seconds. *)
\* Ticks in one TOTP time step: totp.Validate uses 30-second steps.
TotpPeriod == 2

\* Ticks a used code stays in usedCodes: time.Now().Add(90*time.Second).
UsedTTL == 3 * TotpPeriod

\* The latest tick of a behaviour.
MaxClock == 8

\* The time step tick t falls in.
TimeStep(t) == t \div TotpPeriod

\* The latest time step whose code a caller submits.
MaxCodeStep == 1

\* User secrets, and the codes callers submit: those the first secret yields
\* at the first time steps, with either secret.
Secrets == {"s1", "s2"}
TotpCodes == [secret : {"s1"}, step : 0..MaxCodeStep]

\* key := secret + ":" + code
TotpKey(code, secret) == [secret |-> secret, code |-> code]
TotpKeys == { TotpKey(code, secret) : code \in TotpCodes, secret \in Secrets }

\* The goroutines that call ValidateTOTP, and one that is not inside a call.
TotpCallers == {"c1", "c2"}
NoCall == [pc |-> "idle", code |-> [secret |-> "", step |-> 0], secret |-> ""]

\* Getwd not called yet.
NoGetwd == [called |-> FALSE, ok |-> FALSE, dir |-> ""]

\* No ls request in hand, no answer yet.
NoLs == [type |-> "none", path |-> ""]
NoLsResult == [type |-> "none", path |-> "", entries |-> <<>>]

\* The remote file system of the put and rm requests: a file, an empty
\* directory and a free path.
NoEntry == [kind |-> "none", data |-> <<>>]
XferPaths == {"/f", "/d", "/n"}
InitialFs ==
    [p \in XferPaths |->
        IF p = "/f" THEN [kind |-> "file", data |-> <<7>>]
        ELSE IF p = "/d" THEN [kind |-> "dir", data |-> <<>>]
        ELSE NoEntry]

\* No put or rm request in hand.
NoXfer == [type |-> "none", payloadOK |-> FALSE, path |-> "", data |-> <<>>]

\* No code typed yet.
NoCode == [secret |-> "", step |-> 0]

\* The requests that insert into the users table: two Init requests and one
\* Register request; an account is identified by the request that made it.
InitCallers == {"i1", "i2"}
AcctCallers == InitCallers \cup {"r1"}
IdleCall == [pc |-> "idle", status |-> 0]

\* The DeleteUser requests.
DelCallers == {"d1", "d2"}
NoDelete == [pc |-> "idle", caller |-> "", target |-> "", status |-> 0]

\* The client addresses the rate limiter sees; no call of allow yet.
Addresses == {"ip1", "ip2"}
NoResult == [ip |-> "", ok |-> FALSE]

\* The requests the page makes through the API client; the refresh call is
\* named apart.
ApiRequests == {"q1", "q2"}
RefreshCall == "refresh"

\* An absent entry of usedCodes.
NotStored == [stored |-> FALSE, expiry |-> 0]

ErrorMsg(text) == <<"error", text>>
ClosedMsg == <<"closed", "session ended">>
ConnectedMsg(sid, name) == <<"connected", sid, name>>
OutputMsg(data) == <<"output", data>>

(***************************************************************************)
(* Persistence (package db)                                                *)
(***************************************************************************)
\* A query on a pool with a context that is done fails; otherwise the
\* database answers, or fails (connection lost).
DbOutcomes == IF ctxDone THEN {FALSE} ELSE {TRUE, FALSE}

\* Mutant: the lookup filters on the host id alone.
GetHostByID_AnyOwner(id, userID) ==
    { h \in HostsTable : h.ID = id }

\* SELECT ... FROM hosts WHERE id = $1 AND user_id = $2
GetHostByID(id, userID) ==
    { h \in HostsTable : h.ID = id /\ h.UserID = userID }

(***************************************************************************)
(* zeroString                                                              *)
(***************************************************************************)
\* zeroString(&s) on heap h: the new value of s and the new heap.
\* strings.Repeat allocates the zero string, []byte(...) copies it to b,
\* sp[0] = dp[0] points s at b's array, and *s = string(b) then stores a
\* fresh copy of b in s. No byte of the array s pointed to is written.
zeroString(h, s) ==
    IF s.len = 0
    THEN [s |-> s, heap |-> h]
    ELSE LET z == [i \in 1..s.len |-> 0]
             h3 == h \o <<z, z, z>>
         IN [s |-> [ptr |-> Len(h3), len |-> s.len], heap |-> h3]

(***************************************************************************)
(* Initial state: a request arrives at one endpoint                        *)
(***************************************************************************)
Init ==
    /\ kind \in {"ssh", "sftp"}
    /\ user \in Users \cup {NoUser}
    /\ pc = "start"
    /\ defers = <<>>
    /\ httpStatus = 0
    /\ ctxDone = FALSE
    /\ payload = NoPayload
    /\ heap = <<>>
    /\ credential = EmptyString
    /\ authCred = EmptyString
    /\ host = NoHost
    /\ out = <<>>
    /\ dialled = <<>>
    /\ remote = NoRemote
    /\ sessions = InitialSessions
    /\ sessionID = ""
    /\ dbCloses = <<>>
    /\ hc = "none"
    /\ ws = "none"
    /\ cancelled = FALSE
    /\ gor = [g \in Streams |-> [pc |-> "none", buf |-> ""]]
    /\ produced = [g \in Streams |-> 0]
    /\ inbox = 0
    /\ first = NoMsg
    /\ msg = NoMsg
    /\ writeMu = ""
    /\ callers = [t \in Goroutines |->
                     [pc |-> IF t = "main" THEN "idle" ELSE "none", calls |-> 0]]
    /\ clock = 0
    /\ usedCodes = [k \in TotpKeys |-> NotStored]
    /\ totpCall = [c \in TotpCallers |-> NoCall]
    /\ accepts = [k \in TotpKeys |-> <<>>]
    /\ cleanupOn = FALSE
    /\ held = {}
    /\ verified = {}
    /\ served = {}
    /\ cfgAllowedOrigins = <<>>
    /\ origins = <<>>
    /\ reqOrigin = <<>>
    /\ upgrade = "none"
    /\ frames = 0
    /\ getwd = NoGetwd
    /\ homeDir = ""
    /\ lsReq = NoLs
    /\ lsResult = NoLsResult
    /\ pageEntries = <<>>
    /\ remoteFs = InitialFs
    /\ xferReq = NoXfer
    /\ xferOut = <<>>
    /\ sftpCalls = <<>>
    /\ setupPc = "form"
    /\ setupCode = NoCode
    /\ totpEnabled = FALSE
    /\ setupStatus = 0
    /\ accounts = {}
    /\ acctCall = [c \in AcctCallers |-> IdleCall]
    /\ delCall = [d \in DelCallers |-> NoDelete]
    /\ createdByInit = 0
    /\ deleted = {}
    /\ rlNow = 0
    /\ requests = [ip \in Addresses |-> <<>>]
    /\ allowedAt = [ip \in Addresses |-> <<>>]
    /\ rlResult = NoResult
    /\ reqSt = [r \in ApiRequests |-> [st |-> "idle", retry |-> FALSE]]
    /\ isRefreshing = FALSE
    /\ queue = <<>>
    /\ rfSt = "none"
    /\ refresher = ""
    /\ loggedOut = FALSE

\* return: run the deferred calls.
Return == pc' = "unwind"

Top == defers[Len(defers)]
Pop == SubSeq(defers, 1, Len(defers) - 1)

(***************************************************************************)
(* middleware.Timeout(60 * time.Second): the request context expires       *)
(***************************************************************************)
CtxTimeout ==
    /\ pc \notin {"start", "done"}
    /\ ~ctxDone
    /\ ctxDone' = TRUE
    /\ UNCHANGED <<kind, user, first, msg, otherVars, pc, defers, httpStatus, payload, heap, credential,
                   authCred, host, out, dialled, remote, sessions, sessionID,
                   dbCloses, hc, ws, streamVars>>


(***************************************************************************)
(* Stream gateway of the terminal endpoint: ws.Handler.ServeHTTP           *)
(***************************************************************************)
\* First messages a client may send: a frame that is no JSON envelope, an
\* envelope of another type, a connect whose payload does not decode, a
\* connect with an empty field, and well-formed connects.
\* Well-formed connects: every host id with a password and the key host with
\* every credential at the default geometry, and one host with every
\* combination of reported geometry.
ConnectMsgs ==
    [json : {TRUE}, type : {"connect"}, payloadOK : {TRUE}, HostID : HostIDs,
     Credential : {PasswordBytes}, Cols : {0}, Rows : {0}]
    \cup
    [json : {TRUE}, type : {"connect"}, payloadOK : {TRUE}, HostID : {"h2"},
     Credential : CredentialInputs, Cols : {0}, Rows : {0}]
    \cup
    [json : {TRUE}, type : {"connect"}, payloadOK : {TRUE}, HostID : {"h1"},
     Credential : {PasswordBytes}, Cols : {0, 120}, Rows : {0, 40}]

FirstMsgs ==
    ConnectMsgs \cup
    { [json |-> FALSE, type |-> "", payloadOK |-> FALSE, HostID |-> "",
       Credential |-> <<>>, Cols |-> 0, Rows |-> 0],
      [json |-> TRUE, type |-> "input", payloadOK |-> TRUE, HostID |-> "",
       Credential |-> <<>>, Cols |-> 0, Rows |-> 0],
      [json |-> TRUE, type |-> "connect", payloadOK |-> FALSE, HostID |-> "",
       Credential |-> <<>>, Cols |-> 0, Rows |-> 0],
      [json |-> TRUE, type |-> "connect", payloadOK |-> TRUE, HostID |-> "",
       Credential |-> PasswordBytes, Cols |-> 0, Rows |-> 0],
      [json |-> TRUE, type |-> "connect", payloadOK |-> TRUE, HostID |-> "h1",
       Credential |-> <<>>, Cols |-> 0, Rows |-> 0] }


\* Mutant: the gateway does not check that host_id and credential are set.
wsFirstError_NoEmptyCheck(m) ==
    IF ~m.json THEN "invalid message format"
    ELSE IF m.type # "connect" THEN "expected connect message"
    ELSE IF ~m.payloadOK THEN "invalid connect payload"
    ELSE ""

\* The error ws.Handler.ServeHTTP answers to first message m, "" when it
\* accepts it.
wsFirstError(m) ==
    IF ~m.json THEN "invalid message format"
    ELSE IF m.type # "connect" THEN "expected connect message"
    ELSE IF ~m.payloadOK THEN "invalid connect payload"
    ELSE IF m.HostID = "" \/ Len(m.Credential) = 0
         THEN "host_id and credential are required"
    ELSE ""

\* user == nil: http.Error(w, "unauthorized", 401).
ServeHTTP_Unauthorized ==
    /\ pc = "start"
    /\ user = NoUser
    /\ httpStatus' = 401
    /\ pc' = "done"
    /\ UNCHANGED <<kind, user, first, msg, otherVars, defers, ctxDone, payload, heap, credential, authCred,
                   host, out, dialled, remote, sessions, sessionID, dbCloses, hc, ws,
                   streamVars>>


\* Mutant: the stream is upgraded without looking at the caller identity.
ServeHTTP_Upgrade_NoUserCheck ==
    /\ pc = "start"
    /\ \E ok \in BOOLEAN :
         IF ok
         THEN /\ defers' = Append(defers, "conn.Close")
              /\ pc' = "first"
              /\ ws' = "open"
              /\ httpStatus' = httpStatus
         ELSE /\ httpStatus' = 403
              /\ pc' = "done"
              /\ UNCHANGED <<defers, ws>>
    /\ UNCHANGED <<kind, user, first, msg, otherVars, ctxDone, payload, heap, credential,
                   authCred, host, out, dialled, remote, sessions, sessionID, dbCloses,
                   hc, streamVars>>

\* upgrader.Upgrade: refused (origin not allowed, bad handshake) or done,
\* and then defer conn.Close().
ServeHTTP_Upgrade ==
    /\ pc = "start"
    /\ user # NoUser
    /\ \E ok \in BOOLEAN :
         IF ok
         THEN /\ defers' = Append(defers, "conn.Close")
              /\ pc' = "first"
              /\ ws' = "open"
              /\ httpStatus' = httpStatus
         ELSE /\ httpStatus' = 403
              /\ pc' = "done"
              /\ UNCHANGED <<defers, ws>>
    /\ UNCHANGED <<kind, user, first, msg, otherVars, ctxDone, payload, heap, credential, authCred, host,
                   out, dialled, remote, sessions, sessionID, dbCloses, hc, streamVars>>

\* conn.ReadMessage() fails before a first message arrives.
ServeHTTP_FirstReadError ==
    /\ pc = "first"
    /\ Return
    /\ UNCHANGED <<kind, user, first, msg, otherVars, defers, httpStatus, ctxDone, payload, heap, credential,
                   authCred, host, out, dialled, remote, sessions, sessionID,
                   dbCloses, hc, ws, streamVars>>

\* The string a decoded payload holds for its credential field.
DecodedPayload(m) ==
    [HostID |-> m.HostID, Credential |-> NewString(heap, m.Credential),
     Cols |-> m.Cols, Rows |-> m.Rows]

\* ws: the first message is read and rejected with sendWSError.
wsServeHTTP_FirstRejected ==
    /\ kind = "ssh"
    /\ pc = "first"
    /\ \E m \in FirstMsgs :
         /\ wsFirstError(m) # ""
         /\ out' = Append(out, ErrorMsg(wsFirstError(m)))
         /\ IF m.json /\ m.type = "connect" /\ m.payloadOK
            THEN /\ payload' = DecodedPayload(m)
                 /\ heap' = Alloc(heap, m.Credential)
            ELSE UNCHANGED <<payload, heap>>
         /\ first' = Envelope(m)
    /\ Return
    /\ UNCHANGED <<kind, user, msg, otherVars, defers, httpStatus, ctxDone, credential, authCred,
                   host, dialled, remote, sessions, sessionID, dbCloses, hc, ws,
                   streamVars>>

\* ws: the first message is a valid connect: NewProxy, defer
\* proxy.CloseSession(r.Context()), and the call of HandleConnection.
wsServeHTTP_Connect ==
    /\ kind = "ssh"
    /\ pc = "first"
    /\ \E m \in FirstMsgs :
         /\ wsFirstError(m) = ""
         /\ payload' = DecodedPayload(m)
         /\ heap' = Alloc(heap, m.Credential)
         /\ first' = Envelope(m)
    /\ defers' = Append(defers, "proxy.CloseSession")
    /\ pc' = "hc_enter"
    /\ UNCHANGED <<kind, user, msg, otherVars, httpStatus, ctxDone, credential, authCred, host, out,
                   dialled, remote, sessions, sessionID, dbCloses, hc, ws, streamVars>>

(***************************************************************************)
(* Terminal engine: ssh.Proxy.HandleConnection                             *)
(***************************************************************************)
\* gossh.ParsePrivateKey succeeds on a well-formed private key only.
ParsePrivateKey(bytes) == bytes = KeyBytes

\* fmt.Sprintf("%s:%d", host.Hostname, host.Port)
DialAddress(h) == <<h.Hostname, h.Port>>

\* p.send(msgType, payload): one WriteMessage under writeMu.
send(message) == out' = Append(out, message)

\* p.sendError(message)
sendError(text) == send(ErrorMsg(text))

\* Entry: defer p.send("closed", ...).
HandleConnection ==
    /\ pc = "hc_enter"
    /\ hc' = "running"
    /\ defers' = Append(defers, "send.closed")
    /\ pc' = "hc_lookup"
    /\ UNCHANGED <<kind, user, first, msg, otherVars, httpStatus, ctxDone, payload, heap, credential,
                   authCred, host, out, dialled, remote, sessions, sessionID, dbCloses,
                   ws, streamVars>>

\* Mutant: the host is resolved by id and its owner checked afterwards,
\* with an answer of its own.
HC_GetHostByID_ThenCheckOwner ==
    /\ pc = "hc_lookup"
    /\ \E ok \in DbOutcomes :
         LET rows == { h \in HostsTable : h.ID = payload.HostID } IN
         IF ok /\ rows # {} /\ (CHOOSE h \in rows : TRUE).UserID = user
         THEN /\ host' = CHOOSE h \in rows : TRUE
              /\ pc' = "hc_auth"
              /\ out' = out
         ELSE /\ sendError(IF ok /\ rows # {} THEN "forbidden" ELSE "host not found")
              /\ Return
              /\ host' = host
    /\ UNCHANGED <<kind, user, first, msg, otherVars, defers, httpStatus, ctxDone, payload, heap, credential,
                   authCred, dialled, remote, sessions, sessionID, dbCloses, hc, ws,
                   streamVars>>

\* host, err := db.GetHostByID(ctx, p.pool, payload.HostID, userID)
HC_GetHostByID ==
    /\ pc = "hc_lookup"
    /\ \E ok \in DbOutcomes :
         LET rows == GetHostByID(payload.HostID, user) IN
         IF ok /\ rows # {}
         THEN /\ host' = CHOOSE h \in rows : TRUE
              /\ pc' = "hc_auth"
              /\ out' = out
         ELSE /\ sendError("host not found")
              /\ Return
              /\ host' = host
    /\ UNCHANGED <<kind, user, first, msg, otherVars, defers, httpStatus, ctxDone, payload, heap, credential,
                   authCred, dialled, remote, sessions, sessionID, dbCloses, hc, ws,
                   streamVars>>

\* Mutant: the key-parse failure path returns without zeroString.
HC_BuildAuth_NoZeroOnKeyError ==
    /\ pc = "hc_auth"
    /\ LET c == payload.Credential IN
       IF host.AuthType = "key" /\ ~ParsePrivateKey(StrRead(heap, c))
       THEN /\ sendError("invalid private key")
            /\ credential' = c
            /\ Return
            /\ UNCHANGED <<defers, authCred, heap>>
       ELSE /\ credential' = c
            /\ authCred' = IF host.AuthType = "password" THEN c ELSE authCred
            /\ defers' = Append(defers, "zeroString")
            /\ pc' = "hc_dial"
            /\ UNCHANGED <<heap, out>>
    /\ UNCHANGED <<kind, user, first, msg, otherVars, httpStatus, ctxDone, payload, host, dialled, remote,
                   sessions, sessionID, dbCloses, hc, ws, streamVars>>

\* credential := payload.Credential; the switch on host.AuthType; then
\* defer zeroString(&credential).
HC_BuildAuth ==
    /\ pc = "hc_auth"
    /\ LET c == payload.Credential IN
       IF host.AuthType = "key" /\ ~ParsePrivateKey(StrRead(heap, c))
       THEN LET z == zeroString(heap, c) IN
            /\ sendError("invalid private key")
            /\ credential' = z.s
            /\ heap' = z.heap
            /\ Return
            /\ UNCHANGED <<defers, authCred>>
       ELSE /\ credential' = c
            /\ authCred' = IF host.AuthType = "password" THEN c ELSE authCred
            /\ defers' = Append(defers, "zeroString")
            /\ pc' = "hc_dial"
            /\ UNCHANGED <<heap, out>>
    /\ UNCHANGED <<kind, user, first, msg, otherVars, httpStatus, ctxDone, payload, host, dialled, remote,
                   sessions, sessionID, dbCloses, hc, ws, streamVars>>

\* client, err := gossh.Dial("tcp", host:port, sshConfig); defer client.Close()
HC_Dial ==
    /\ pc = "hc_dial"
    /\ dialled' = Append(dialled, <<DialAddress(host), user>>)
    /\ \E ok \in BOOLEAN :
         IF ok
         THEN /\ remote' = [remote EXCEPT !.client = "open"]
              /\ defers' = Append(defers, "client.Close")
              /\ pc' = "hc_session"
              /\ out' = out
         ELSE /\ sendError("connection failed")
              /\ Return
              /\ UNCHANGED <<remote, defers>>
    /\ UNCHANGED <<kind, user, first, msg, otherVars, httpStatus, ctxDone, payload, heap, credential,
                   authCred, host, sessions, sessionID, dbCloses, hc, ws, streamVars>>


\* session, err := client.NewSession(); defer session.Close()
HC_NewSession ==
    /\ pc = "hc_session"
    /\ \E ok \in BOOLEAN :
         IF ok
         THEN /\ remote' = [remote EXCEPT !.session = "open"]
              /\ defers' = Append(defers, "session.Close")
              /\ pc' = "hc_pty"
              /\ out' = out
         ELSE /\ sendError("failed to create SSH session")
              /\ Return
              /\ UNCHANGED <<remote, defers>>
    /\ UNCHANGED <<kind, user, first, msg, otherVars, httpStatus, ctxDone, payload, heap, credential,
                   authCred, host, dialled, sessions, sessionID, dbCloses, hc, ws,
                   streamVars>>

\* Mutant of PtyCols: the default applies only when both dimensions are 0.
PtyCols_OnlyWhenBothZero(p) == IF p.Cols = 0 /\ p.Rows = 0 THEN 80 ELSE p.Cols

\* cols, rows := int(payload.Cols), int(payload.Rows), 0 replaced by 80 and 24.
PtyCols(p) == IF p.Cols = 0 THEN 80 ELSE p.Cols
PtyRows(p) == IF p.Rows = 0 THEN 24 ELSE p.Rows

\* session.RequestPty("xterm-256color", rows, cols, modes)
HC_RequestPty ==
    /\ pc = "hc_pty"
    /\ \E ok \in BOOLEAN :
         IF ok
         THEN /\ remote' = [remote EXCEPT !.pty = <<PtyRows(payload), PtyCols(payload)>>]
              /\ pc' = "hc_stdin"
              /\ out' = out
         ELSE /\ sendError("failed to request PTY")
              /\ Return
              /\ remote' = remote
    /\ UNCHANGED <<kind, user, first, msg, otherVars, defers, httpStatus, ctxDone, payload, heap, credential,
                   authCred, host, dialled, sessions, sessionID, dbCloses, hc, ws,
                   streamVars>>

\* A step of HandleConnection that only succeeds or reports an error.
HC_Step(from, to, errText) ==
    /\ pc = from
    /\ \E ok \in BOOLEAN :
         IF ok
         THEN /\ pc' = to
              /\ out' = out
         ELSE /\ sendError(errText)
              /\ Return
    /\ UNCHANGED <<kind, user, first, msg, otherVars, defers, httpStatus, ctxDone, payload, heap, credential,
                   authCred, host, dialled, remote, sessions, sessionID, dbCloses,
                   hc, ws, streamVars>>

\* stdin, err := session.StdinPipe()
HC_StdinPipe == HC_Step("hc_stdin", "hc_stdout", "stdin pipe error")

\* stdout, err := session.StdoutPipe()
HC_StdoutPipe == HC_Step("hc_stdout", "hc_stderr", "stdout pipe error")

\* stderr, err := session.StderrPipe()
HC_StderrPipe == HC_Step("hc_stderr", "hc_shell", "stderr pipe error")

\* session.Shell()
HC_Shell ==
    /\ pc = "hc_shell"
    /\ \E ok \in BOOLEAN :
         IF ok
         THEN /\ remote' = [remote EXCEPT !.shell = TRUE]
              /\ pc' = "hc_record"
              /\ out' = out
         ELSE /\ sendError("failed to start shell")
              /\ Return
              /\ remote' = remote
    /\ UNCHANGED <<kind, user, first, msg, otherVars, defers, httpStatus, ctxDone, payload, heap, credential,
                   authCred, host, dialled, sessions, sessionID, dbCloses, hc, ws,
                   streamVars>>

\* INSERT INTO sessions (user_id, host_id, client_ip) ... RETURNING id:
\* the table with the new row, and the new row's id.
NewSessionID(tbl) == SessionIDs[Len(tbl) + 1]

CreateSession(tbl, userID, hostID, clientIP) ==
    Append(tbl, [user_id |-> userID, host_id |-> hostID, client_ip |-> clientIP,
                 ended_at |-> FALSE, updates |-> 0, mine |-> TRUE])

\* The row of session id sid in the table (ids are handed out in row order).
RowOf(sid) == CHOOSE i \in 1..Len(SessionIDs) : SessionIDs[i] = sid

\* UPDATE sessions SET ended_at = now WHERE id = $2
CloseSession(tbl, sid) ==
    [tbl EXCEPT ![RowOf(sid)] = [@ EXCEPT !.ended_at = TRUE, !.updates = @ + 1]]

\* sessionID, err := db.CreateSession(...); on error only log.Printf;
\* p.sessionID = sessionID; p.send("connected", ...).
HC_CreateSession ==
    /\ pc = "hc_record"
    /\ \E ok \in DbOutcomes :
         LET sid == IF ok THEN NewSessionID(sessions) ELSE "" IN
         /\ sessions' = IF ok THEN CreateSession(sessions, user, host.ID, "ip")
                        ELSE sessions
         /\ sessionID' = sid
         /\ send(ConnectedMsg(sid, host.Name))
    /\ pc' = "hc_stream"
    /\ UNCHANGED <<kind, user, first, msg, otherVars, defers, httpStatus, ctxDone, payload, heap, credential,
                   authCred, host, dialled, remote, dbCloses, hc, ws, streamVars>>

\* ctx2, cancel := context.WithCancel(ctx); defer cancel(); the two go func().
HC_StartStreaming ==
    /\ pc = "hc_stream"
    /\ defers' = Append(defers, "cancel")
    /\ gor' = [g \in Streams |-> [pc |-> "read", buf |-> "", err |-> FALSE]]
    /\ pc' = "loop"
    /\ UNCHANGED <<kind, user, first, msg, otherVars, httpStatus, ctxDone, payload, heap, credential,
                   authCred, host, out, dialled, remote, sessions, sessionID,
                   dbCloses, hc, ws, cancelled, produced, inbox>>

\* ctx2 is done when cancel() was called or its parent, the request context, is.
Ctx2Done == cancelled \/ ctxDone

\* select { case <-ctx2.Done(): return; default: }, at the top of an
\* iteration: the previous iteration's msg is gone.
HC_LoopSelect ==
    /\ pc = "loop"
    /\ IF Ctx2Done THEN Return ELSE pc' = "read"
    /\ msg' = NoMsg
    /\ UNCHANGED <<kind, user, first, otherVars, defers, httpStatus, ctxDone, payload, heap, credential,
                   authCred, host, out, dialled, remote, sessions, sessionID,
                   dbCloses, hc, ws, streamVars>>

\* p.wsConn.ReadMessage() returns an error (the client closed the stream).
HC_ReadError ==
    /\ pc = "read"
    /\ Return
    /\ UNCHANGED <<kind, user, first, msg, otherVars, defers, httpStatus, ctxDone, payload, heap, credential,
                   authCred, host, out, dialled, remote, sessions, sessionID,
                   dbCloses, hc, ws, streamVars>>

\* Messages a client may send once streaming: payloadOK tells whether the
\* payload decodes into the type's payload struct.
LoopMsgs ==
    { [json |-> FALSE, type |-> "", payloadOK |-> FALSE, Data |-> "", Cols |-> 0, Rows |-> 0],
      [json |-> TRUE, type |-> "input", payloadOK |-> TRUE, Data |-> "ls", Cols |-> 0, Rows |-> 0],
      [json |-> TRUE, type |-> "input", payloadOK |-> FALSE, Data |-> "", Cols |-> 0, Rows |-> 0],
      [json |-> TRUE, type |-> "resize", payloadOK |-> TRUE, Data |-> "", Cols |-> 100, Rows |-> 30],
      [json |-> TRUE, type |-> "resize", payloadOK |-> FALSE, Data |-> "", Cols |-> 0, Rows |-> 0],
      [json |-> TRUE, type |-> "disconnect", payloadOK |-> TRUE, Data |-> "", Cols |-> 0, Rows |-> 0],
      [json |-> TRUE, type |-> "connect", payloadOK |-> TRUE, Data |-> "", Cols |-> 0, Rows |-> 0],
      [json |-> TRUE, type |-> "ping", payloadOK |-> TRUE, Data |-> "", Cols |-> 0, Rows |-> 0] }


\* Mutant: the resize case passes columns and rows in the wrong order.
Dispatch_SwappedResize(r, m) ==
    IF ~m.json \/ ~m.payloadOK THEN r
    ELSE IF m.type = "input" THEN [r EXCEPT !.stdin = Append(@, m.Data)]
    ELSE IF m.type = "resize" THEN [r EXCEPT !.pty = <<m.Cols, m.Rows>>]
    ELSE r

\* The remote side after the engine loop has handled client message m.
Dispatch(r, m) ==
    IF ~m.json \/ ~m.payloadOK THEN r
    ELSE IF m.type = "input" THEN [r EXCEPT !.stdin = Append(@, m.Data)]
    ELSE IF m.type = "resize" THEN [r EXCEPT !.pty = <<m.Rows, m.Cols>>]
    ELSE r

\* Mutant: the disconnect case sends closed itself before returning.
HC_ReadMessage_ClosedOnDisconnect ==
    /\ pc = "read"
    /\ inbox < MaxClientMsgs
    /\ \E m \in LoopMsgs :
         /\ msg' = m
         /\ remote' = Dispatch(remote, m)
         /\ IF m.json /\ m.type = "disconnect"
            THEN send(ClosedMsg) /\ Return
            ELSE pc' = "loop" /\ out' = out
    /\ inbox' = inbox + 1
    /\ UNCHANGED <<kind, user, first, otherVars, defers, httpStatus, ctxDone, payload, heap, credential,
                   authCred, host, dialled, sessions, sessionID, dbCloses, hc,
                   ws, cancelled, gor, produced>>


\* Mutant: a connect read by the engine loop dials the host again.
HC_ReadMessage_Reconnect ==
    /\ pc = "read"
    /\ inbox < MaxClientMsgs
    /\ \E m \in LoopMsgs :
         /\ msg' = m
         /\ remote' = Dispatch(remote, m)
         /\ dialled' = IF m.json /\ m.type = "connect"
                       THEN Append(dialled, <<DialAddress(host), user>>)
                       ELSE dialled
         /\ IF m.json /\ m.type = "disconnect" THEN Return ELSE pc' = "loop"
    /\ inbox' = inbox + 1
    /\ UNCHANGED <<kind, user, first, otherVars, defers, httpStatus, ctxDone, payload,
                   heap, credential, authCred, host, out, sessions, sessionID,
                   dbCloses, hc, ws, cancelled, gor, produced>>

\* One message read by the engine loop and the switch on its type.
HC_ReadMessage ==
    /\ pc = "read"
    /\ inbox < MaxClientMsgs
    /\ \E m \in LoopMsgs :
         /\ msg' = m
         /\ remote' = Dispatch(remote, m)
         /\ IF m.json /\ m.type = "disconnect" THEN Return ELSE pc' = "loop"
    /\ inbox' = inbox + 1
    /\ UNCHANGED <<kind, user, first, otherVars, defers, httpStatus, ctxDone, payload, heap, credential,
                   authCred, host, out, dialled, sessions, sessionID, dbCloses, hc,
                   ws, cancelled, gor, produced>>

(***************************************************************************)
(* The forwarder goroutines                                                *)
(***************************************************************************)

\* Mutant: the error of a read is looked at before its bytes, so the chunk
\* that arrives together with the error is not sent.
Forward_Read_ErrorFirst(g) ==
    /\ gor[g].pc = "read"
    /\ produced[g] < Len(RemoteChunks[g])
    /\ produced' = [produced EXCEPT ![g] = @ + 1]
    /\ \E e \in BOOLEAN :
         gor' = [gor EXCEPT ![g] =
                   IF e THEN [pc |-> "failed", err |-> TRUE, buf |-> ""]
                   ELSE [pc |-> "send", err |-> FALSE,
                         buf |-> RemoteChunks[g][produced[g] + 1]]]
    /\ UNCHANGED <<kind, user, first, msg, otherVars, pc, defers, httpStatus, ctxDone,
                   payload, heap, credential, authCred, host, out, dialled, remote,
                   sessions, sessionID, dbCloses, hc, ws, cancelled, inbox>>

\* n, err := stream.Read(buf) with n > 0: the next chunk of stream g, alone
\* or together with the error that ends the stream.
Forward_Read(g) ==
    /\ gor[g].pc = "read"
    /\ produced[g] < Len(RemoteChunks[g])
    /\ produced' = [produced EXCEPT ![g] = @ + 1]
    /\ \E e \in BOOLEAN :
         gor' = [gor EXCEPT ![g] = [pc |-> "send", err |-> e,
                                    buf |-> RemoteChunks[g][produced[g] + 1]]]
    /\ UNCHANGED <<kind, user, first, msg, otherVars, pc, defers, httpStatus, ctxDone,
                   payload, heap, credential, authCred, host, out, dialled, remote,
                   sessions, sessionID, dbCloses, hc, ws, cancelled, inbox>>

\* if n > 0 { p.send("output", {"data": string(buf[:n])}) }
Forward_Send(g) ==
    /\ gor[g].pc = "send"
    /\ send(OutputMsg(gor[g].buf))
    /\ gor' = [gor EXCEPT ![g] = [pc |-> IF gor[g].err THEN "failed" ELSE "read",
                                  buf |-> "", err |-> gor[g].err]]
    /\ UNCHANGED <<kind, user, first, msg, otherVars, pc, defers, httpStatus, ctxDone,
                   payload, heap, credential, authCred, host, dialled, remote,
                   sessions, sessionID, dbCloses, hc, ws, cancelled, produced, inbox>>

\* if err != nil: Read returned an error with n = 0 (end of stream,
\* connection closed) or after its last chunk was sent: the stdout goroutine
\* calls cancel() and returns, the stderr goroutine just returns.
Forward_ReadError(g) ==
    /\ gor[g].pc \in {"read", "failed"}
    /\ gor' = [gor EXCEPT ![g] = [pc |-> "exit", buf |-> "", err |-> TRUE]]
    /\ cancelled' = IF g = "stdout" THEN TRUE ELSE cancelled
    /\ UNCHANGED <<kind, user, first, msg, otherVars, pc, defers, httpStatus, ctxDone,
                   payload, heap, credential, authCred, host, out, dialled, remote,
                   sessions, sessionID, dbCloses, hc, ws, produced, inbox>>

(***************************************************************************)
(* File-transfer endpoint: sftp.Handler.ServeHTTP                          *)
(***************************************************************************)
\* The error sftp.Handler.ServeHTTP answers to first message m, "" when it
\* accepts it.
sftpFirstError(m) ==
    IF ~m.json \/ m.type # "connect" THEN "expected connect message"
    ELSE IF ~m.payloadOK \/ m.HostID = "" \/ Len(m.Credential) = 0
         THEN "invalid connect payload"
    ELSE ""

\* sftp: the first message is read and rejected with c.sendError.
sftpServeHTTP_FirstRejected ==
    /\ kind = "sftp"
    /\ pc = "first"
    /\ \E m \in FirstMsgs :
         /\ sftpFirstError(m) # ""
         /\ sendError(sftpFirstError(m))
         /\ IF m.json /\ m.type = "connect" /\ m.payloadOK
            THEN /\ payload' = DecodedPayload(m)
                 /\ heap' = Alloc(heap, m.Credential)
            ELSE UNCHANGED <<payload, heap>>
         /\ first' = Envelope(m)
    /\ Return
    /\ UNCHANGED <<kind, user, msg, otherVars, defers, httpStatus, ctxDone, credential, authCred,
                   host, dialled, remote, sessions, sessionID, dbCloses, hc, ws,
                   streamVars>>

\* sftp: the first message is a valid connect, decoded into cp.
sftpServeHTTP_Connect ==
    /\ kind = "sftp"
    /\ pc = "first"
    /\ \E m \in FirstMsgs :
         /\ sftpFirstError(m) = ""
         /\ payload' = DecodedPayload(m)
         /\ heap' = Alloc(heap, m.Credential)
         /\ first' = Envelope(m)
    /\ pc' = "sftp_lookup"
    /\ UNCHANGED <<kind, user, msg, otherVars, defers, httpStatus, ctxDone, credential, authCred,
                   host, out, dialled, remote, sessions, sessionID, dbCloses, hc, ws,
                   streamVars>>

\* host, err := db.GetHostByID(r.Context(), h.pool, cp.HostID, user.UserID)
sftp_GetHostByID ==
    /\ pc = "sftp_lookup"
    /\ \E ok \in DbOutcomes :
         LET rows == GetHostByID(payload.HostID, user) IN
         IF ok /\ rows # {}
         THEN /\ host' = CHOOSE h \in rows : TRUE
              /\ pc' = "sftp_auth"
              /\ out' = out
         ELSE /\ sendError("host not found")
              /\ Return
              /\ host' = host
    /\ UNCHANGED <<kind, user, first, msg, otherVars, defers, httpStatus, ctxDone, payload, heap, credential,
                   authCred, dialled, remote, sessions, sessionID, dbCloses, hc, ws,
                   streamVars>>

\* cred := cp.Credential and the switch on host.AuthType; cred is never
\* passed to a zeroing function.
sftp_BuildAuth ==
    /\ pc = "sftp_auth"
    /\ credential' = payload.Credential
    /\ IF host.AuthType = "key" /\ ~ParsePrivateKey(StrRead(heap, payload.Credential))
       THEN /\ sendError("invalid private key")
            /\ Return
            /\ authCred' = authCred
       ELSE /\ authCred' = IF host.AuthType = "password" THEN payload.Credential
                           ELSE authCred
            /\ pc' = "sftp_dial"
            /\ out' = out
    /\ UNCHANGED <<kind, user, first, msg, otherVars, defers, httpStatus, ctxDone, payload, heap, host,
                   dialled, remote, sessions, sessionID, dbCloses, hc, ws, streamVars>>

\* sshClient, err := gossh.Dial(...); defer sshClient.Close()
sftp_Dial ==
    /\ pc = "sftp_dial"
    /\ dialled' = Append(dialled, <<DialAddress(host), user>>)
    /\ \E ok \in BOOLEAN :
         IF ok
         THEN /\ remote' = [remote EXCEPT !.client = "open"]
              /\ defers' = Append(defers, "client.Close")
              /\ pc' = "sftp_client"
              /\ out' = out
         ELSE /\ sendError("connection failed")
              /\ Return
              /\ UNCHANGED <<remote, defers>>
    /\ UNCHANGED <<kind, user, first, msg, otherVars, httpStatus, ctxDone, payload, heap, credential,
                   authCred, host, sessions, sessionID, dbCloses, hc, ws, streamVars>>


\* Mutant: a failure to open the subsystem returns without reporting it.
sftp_NewClient_Silent ==
    /\ pc = "sftp_client"
    /\ \E ok \in BOOLEAN :
         IF ok
         THEN /\ remote' = [remote EXCEPT !.session = "open"]
              /\ defers' = Append(defers, "sftpClient.Close")
              /\ pc' = "sftp_home"
         ELSE /\ Return
              /\ UNCHANGED <<remote, defers>>
    /\ UNCHANGED <<kind, user, first, msg, otherVars, httpStatus, ctxDone, payload, heap,
                   credential, authCred, host, out, dialled, sessions, sessionID,
                   dbCloses, hc, ws, streamVars>>

\* sftpClient, err := pkgsftp.NewClient(sshClient); defer sftpClient.Close()
sftp_NewClient ==
    /\ pc = "sftp_client"
    /\ \E ok \in BOOLEAN :
         IF ok
         THEN /\ remote' = [remote EXCEPT !.session = "open"]
              /\ defers' = Append(defers, "sftpClient.Close")
              /\ pc' = "sftp_home"
              /\ out' = out
         ELSE /\ sendError("failed to open SFTP subsystem")
              /\ Return
              /\ UNCHANGED <<remote, defers>>
    /\ UNCHANGED <<kind, user, first, msg, otherVars, httpStatus, ctxDone, payload, heap, credential,
                   authCred, host, dialled, sessions, sessionID, dbCloses, hc, ws,
                   streamVars>>

SftpConnectedMsg(home, name) == <<"connected", home, name>>


\* Mutant: the file-transfer handler records a session once connected.
sftp_Connected_Recorded ==
    /\ pc = "sftp_home"
    /\ \E ok \in BOOLEAN :
         LET home == IF ok THEN "/home/" \o host.Username ELSE "/" IN
         /\ remote' = [remote EXCEPT !.home = home]
         /\ send(SftpConnectedMsg(home, host.Name))
    /\ sessions' = CreateSession(sessions, user, host.ID, "")
    /\ pc' = "sftp_read"
    /\ UNCHANGED <<kind, user, first, msg, otherVars, defers, httpStatus, ctxDone, payload,
                   heap, credential, authCred, host, dialled, sessionID, dbCloses, hc,
                   ws, streamVars>>

\* home, err := sftpClient.Getwd(), "/" on error; c.send(msgConnected, ...)
sftp_Connected ==
    /\ pc = "sftp_home"
    /\ \E ok \in BOOLEAN :
         LET home == IF ok THEN "/home/" \o host.Username ELSE "/" IN
         /\ remote' = [remote EXCEPT !.home = home]
         /\ send(SftpConnectedMsg(home, host.Name))
    /\ pc' = "sftp_read"
    /\ UNCHANGED <<kind, user, first, msg, otherVars, defers, httpStatus, ctxDone, payload, heap, credential,
                   authCred, host, dialled, sessions, sessionID, dbCloses, hc, ws,
                   streamVars>>

\* wsConn.ReadMessage() returns an error in the request loop.
sftp_ReadError ==
    /\ pc = "sftp_read"
    /\ Return
    /\ UNCHANGED <<kind, user, first, msg, otherVars, defers, httpStatus, ctxDone, payload, heap, credential,
                   authCred, host, out, dialled, remote, sessions, sessionID,
                   dbCloses, hc, ws, streamVars>>

\* Requests a client may send in the request loop.
SftpTypes == {"ls", "get", "put", "rm", "mkdir", "rename"}
SftpMsgs ==
    [json : {TRUE}, type : SftpTypes \cup {"connect", "ping"}, payloadOK : BOOLEAN]
    \cup {[json |-> FALSE, type |-> "", payloadOK |-> FALSE]}


\* Mutant: a type the request loop does not know is answered with an error.
SftpResponse_UnknownIsError(m, ok) ==
    IF ~m.json THEN <<>>
    ELSE IF m.type \notin SftpTypes THEN ErrorMsg("unknown message type")
    ELSE IF ~m.payloadOK THEN ErrorMsg("invalid " \o m.type \o " payload")
    ELSE IF ~ok THEN ErrorMsg(m.type)
    ELSE IF m.type = "ls" THEN <<"ls_result">>
    ELSE IF m.type = "get" THEN <<"get_result">>
    ELSE <<"done", m.type>>

\* What the request loop sends for request m when the remote operation
\* succeeds (ok) or fails: <<>> when it sends nothing.
SftpResponse(m, ok) ==
    IF ~m.json \/ m.type \notin SftpTypes THEN <<>>
    ELSE IF ~m.payloadOK THEN ErrorMsg("invalid " \o m.type \o " payload")
    ELSE IF ~ok THEN ErrorMsg(m.type)
    ELSE IF m.type = "ls" THEN <<"ls_result">>
    ELSE IF m.type = "get" THEN <<"get_result">>
    ELSE <<"done", m.type>>


\* Mutant: the response is put in front of the responses already sent.
sftp_Request_AnswerInFront ==
    /\ pc = "sftp_read"
    /\ inbox < MaxClientMsgs
    /\ \E m \in SftpMsgs, ok \in BOOLEAN :
         /\ msg' = m
         /\ out' = IF SftpResponse(m, ok) = <<>> THEN out
                   ELSE <<SftpResponse(m, ok)>> \o out
    /\ inbox' = inbox + 1
    /\ UNCHANGED <<kind, user, first, otherVars, pc, defers, httpStatus, ctxDone, payload, heap,
                   credential, authCred, host, dialled, remote, sessions, sessionID,
                   dbCloses, hc, ws, cancelled, gor, produced>>

\* Mutant: a request that fails ends the request loop after its error.
sftp_Request_ReturnOnFailure ==
    /\ pc = "sftp_read"
    /\ inbox < MaxClientMsgs
    /\ \E m \in SftpMsgs, ok \in BOOLEAN :
         /\ msg' = m
         /\ out' = IF SftpResponse(m, ok) = <<>> THEN out
                   ELSE Append(out, SftpResponse(m, ok))
         /\ pc' = IF SftpResponse(m, ok) # <<>> /\ SftpResponse(m, ok)[1] = "error"
                  THEN "unwind" ELSE pc
    /\ inbox' = inbox + 1
    /\ UNCHANGED <<kind, user, first, otherVars, defers, httpStatus, ctxDone, payload,
                   heap, credential, authCred, host, dialled, remote, sessions,
                   sessionID, dbCloses, hc, ws, cancelled, gor, produced>>

\* One request read and answered by the request loop.
sftp_Request ==
    /\ pc = "sftp_read"
    /\ inbox < MaxClientMsgs
    /\ \E m \in SftpMsgs, ok \in BOOLEAN :
         /\ msg' = m
         /\ out' = IF SftpResponse(m, ok) = <<>> THEN out
                   ELSE Append(out, SftpResponse(m, ok))
    /\ inbox' = inbox + 1
    /\ UNCHANGED <<kind, user, first, otherVars, pc, defers, httpStatus, ctxDone, payload, heap,
                   credential, authCred, host, dialled, remote, sessions, sessionID,
                   dbCloses, hc, ws, cancelled, gor, produced>>

(***************************************************************************)
(* Deferred calls, run innermost first when the handler returns            *)
(***************************************************************************)
Deferred(name) == pc = "unwind" /\ defers # <<>> /\ Top = name /\ defers' = Pop

\* defer cancel()
Defer_cancel ==
    /\ Deferred("cancel")
    /\ cancelled' = TRUE
    /\ UNCHANGED <<kind, user, first, msg, otherVars, pc, httpStatus, ctxDone, payload, heap, credential,
                   authCred, host, out, dialled, remote, sessions, sessionID,
                   dbCloses, hc, ws, gor, produced, inbox>>

\* defer session.Close()
Defer_sessionClose ==
    /\ Deferred("session.Close")
    /\ remote' = [remote EXCEPT !.session = "closed"]
    /\ UNCHANGED <<kind, user, first, msg, otherVars, pc, httpStatus, ctxDone, payload, heap, credential,
                   authCred, host, out, dialled, sessions, sessionID, dbCloses, hc,
                   ws, streamVars>>

\* defer client.Close() (terminal engine) / defer sshClient.Close() (file transfer)
Defer_clientClose ==
    /\ Deferred("client.Close")
    /\ remote' = [remote EXCEPT !.client = "closed"]
    /\ UNCHANGED <<kind, user, first, msg, otherVars, pc, httpStatus, ctxDone, payload, heap, credential,
                   authCred, host, out, dialled, sessions, sessionID, dbCloses, hc,
                   ws, streamVars>>

\* defer zeroString(&credential)
Defer_zeroString ==
    /\ Deferred("zeroString")
    /\ LET z == zeroString(heap, credential) IN
       /\ credential' = z.s
       /\ heap' = z.heap
    /\ UNCHANGED <<kind, user, first, msg, otherVars, pc, httpStatus, ctxDone, payload, authCred, host, out,
                   dialled, remote, sessions, sessionID, dbCloses, hc, ws, streamVars>>

\* defer p.send("closed", {"reason": "session ended"}): the last deferred
\* call of HandleConnection, which returns after it.
Defer_sendClosed ==
    /\ Deferred("send.closed")
    /\ send(ClosedMsg)
    /\ hc' = "returned"
    /\ UNCHANGED <<kind, user, first, msg, otherVars, pc, httpStatus, ctxDone, payload, heap, credential,
                   authCred, host, dialled, remote, sessions, sessionID, dbCloses,
                   ws, streamVars>>

\* Mutant: CloseSession without the p.sessionID != "" test; the UPDATE of
\* an id of no row changes nothing.
Defer_CloseSession_Unguarded ==
    /\ Deferred("proxy.CloseSession")
    /\ \E ok \in DbOutcomes :
         /\ sessions' = IF ok /\ sessionID # "" THEN CloseSession(sessions, sessionID)
                        ELSE sessions
         /\ dbCloses' = Append(dbCloses, <<sessionID, ok>>)
    /\ UNCHANGED <<kind, user, first, msg, otherVars, pc, httpStatus, ctxDone, payload, heap, credential,
                   authCred, host, out, dialled, remote, sessionID, hc, ws, streamVars>>

\* defer proxy.CloseSession(r.Context()): if p.sessionID != "" then
\* db.CloseSession(ctx, p.pool, p.sessionID), its error dropped.
Defer_CloseSession ==
    /\ Deferred("proxy.CloseSession")
    /\ IF sessionID = ""
       THEN UNCHANGED <<sessions, dbCloses>>
       ELSE \E ok \in DbOutcomes :
              /\ sessions' = IF ok THEN CloseSession(sessions, sessionID) ELSE sessions
              /\ dbCloses' = Append(dbCloses, <<sessionID, ok>>)
    /\ UNCHANGED <<kind, user, first, msg, otherVars, pc, httpStatus, ctxDone, payload, heap, credential,
                   authCred, host, out, dialled, remote, sessionID, hc, ws, streamVars>>

\* defer sftpClient.Close()
Defer_sftpClientClose ==
    /\ Deferred("sftpClient.Close")
    /\ remote' = [remote EXCEPT !.session = "closed"]
    /\ UNCHANGED <<kind, user, first, msg, otherVars, pc, httpStatus, ctxDone, payload, heap, credential,
                   authCred, host, out, dialled, sessions, sessionID, dbCloses, hc,
                   ws, streamVars>>

\* defer conn.Close() / defer wsConn.Close()
Defer_connClose ==
    /\ Deferred("conn.Close")
    /\ ws' = "closed"
    /\ UNCHANGED <<kind, user, first, msg, otherVars, pc, httpStatus, ctxDone, payload, heap, credential,
                   authCred, host, out, dialled, remote, sessions, sessionID,
                   dbCloses, hc, streamVars>>

\* No deferred call is left: ServeHTTP has returned.
ServeHTTP_Return ==
    /\ pc = "unwind"
    /\ defers = <<>>
    /\ pc' = "done"
    /\ UNCHANGED <<kind, user, first, msg, otherVars, defers, httpStatus, ctxDone, payload, heap, credential,
                   authCred, host, out, dialled, remote, sessions, sessionID,
                   dbCloses, hc, ws, streamVars>>

Next ==
    \/ CtxTimeout
    \/ ServeHTTP_Unauthorized
    \/ ServeHTTP_Upgrade
    \/ ServeHTTP_FirstReadError
    \/ wsServeHTTP_FirstRejected
    \/ wsServeHTTP_Connect
    \/ HandleConnection
    \/ HC_GetHostByID
    \/ HC_BuildAuth
    \/ HC_Dial
    \/ HC_NewSession
    \/ HC_RequestPty
    \/ HC_StdinPipe
    \/ HC_StdoutPipe
    \/ HC_StderrPipe
    \/ HC_Shell
    \/ HC_CreateSession
    \/ HC_StartStreaming
    \/ HC_LoopSelect
    \/ HC_ReadError
    \/ HC_ReadMessage
    \/ \E g \in Streams : Forward_Read(g)
    \/ \E g \in Streams : Forward_Send(g)
    \/ \E g \in Streams : Forward_ReadError(g)
    \/ sftpServeHTTP_FirstRejected
    \/ sftpServeHTTP_Connect
    \/ sftp_GetHostByID
    \/ sftp_BuildAuth
    \/ sftp_Dial
    \/ sftp_NewClient
    \/ sftp_Connected
    \/ sftp_ReadError
    \/ sftp_Request
    \/ Defer_sftpClientClose
    \/ Defer_cancel
    \/ Defer_sessionClose
    \/ Defer_clientClose
    \/ Defer_zeroString
    \/ Defer_sendClosed
    \/ Defer_CloseSession
    \/ Defer_connClose
    \/ ServeHTTP_Return

Spec == Init /\ [][Next]_vars

(***************************************************************************)
(* The write path of a client stream: ws.sendWSError, Proxy.send and       *)
(* conn.send, called by the goroutines that share the stream               *)
(***************************************************************************)
\* Calls of send each goroutine makes at most.
MaxSends == 2

\* The goroutines of the request: none without an upgraded stream, the
\* handler's own, and in the terminal engine the two forwarders.
Senders ==
    IF user = NoUser THEN {}
    ELSE IF kind = "ssh" THEN Goroutines
    ELSE {"main"}

\* ws.sendWSError: conn.WriteMessage without a mutex, by the gateway before
\* it has created the proxy; the gateway returns after it.
ws_sendWSError ==
    /\ kind = "ssh"
    /\ user # NoUser
    /\ callers["main"] = [pc |-> "idle", calls |-> 0]
    /\ callers["stdout"].pc = "none"
    /\ callers' = [callers EXCEPT !["main"].pc = "rawwrite"]
    /\ UNCHANGED <<writeMu, sendRest>>

\* The gateway's WriteMessage returns, and so does the gateway.
ws_sendWSError_Return ==
    /\ callers["main"].pc = "rawwrite"
    /\ callers' = [callers EXCEPT !["main"].pc = "returned"]
    /\ UNCHANGED <<writeMu, sendRest>>

\* The two go func() of HandleConnection.
go_Forwarders ==
    /\ kind = "ssh"
    /\ user # NoUser
    /\ callers["main"].pc = "idle"
    /\ callers["stdout"].pc = "none"
    /\ callers' = [t \in Goroutines |->
                     IF t = "main" THEN callers[t] ELSE [pc |-> "idle", calls |-> 0]]
    /\ UNCHANGED <<writeMu, sendRest>>

\* Goroutine t calls send: json.Marshal, then it waits for the mutex.
send_Call(t) ==
    /\ callers[t].pc = "idle"
    /\ callers[t].calls < MaxSends
    /\ callers' = [callers EXCEPT ![t].pc = "lock"]
    /\ UNCHANGED <<writeMu, sendRest>>

\* Mutant: send goes on to WriteMessage without taking the mutex.
send_Lock_NoMutex(t) ==
    /\ callers[t].pc = "lock"
    /\ callers' = [callers EXCEPT ![t].pc = "writing"]
    /\ UNCHANGED <<writeMu, sendRest>>

\* writeMu.Lock() returns once the mutex is free; WriteMessage starts.
send_Lock(t) ==
    /\ callers[t].pc = "lock"
    /\ writeMu = ""
    /\ writeMu' = t
    /\ callers' = [callers EXCEPT ![t].pc = "writing"]
    /\ UNCHANGED sendRest

\* WriteMessage(websocket.TextMessage, data) returns.
send_Write(t) ==
    /\ callers[t].pc = "writing"
    /\ callers' = [callers EXCEPT ![t].pc = "unlock"]
    /\ UNCHANGED <<writeMu, sendRest>>

\* defer writeMu.Unlock(), and send returns.
send_Unlock(t) ==
    /\ callers[t].pc = "unlock"
    /\ writeMu' = ""
    /\ callers' = [callers EXCEPT ![t] = [pc |-> "idle", calls |-> @.calls + 1]]
    /\ UNCHANGED sendRest

SendNext ==
    \/ ws_sendWSError
    \/ ws_sendWSError_Return
    \/ go_Forwarders
    \/ \E t \in Senders : send_Call(t)
    \/ \E t \in Senders : send_Lock(t)
    \/ \E t \in Senders : send_Write(t)
    \/ \E t \in Senders : send_Unlock(t)

SendSpec == Init /\ [][SendNext]_vars

(***************************************************************************)
(* One-time codes: auth.ValidateTOTP and the cleanup goroutine             *)
(***************************************************************************)
\* totp.Validate(code, secret) at tick t: the code is the one the secret
\* yields at the current time step or at one of its two neighbours.
totpValidate(code, secret, t) ==
    /\ code.secret = secret
    /\ code.step \in (TimeStep(t) - 1)..(TimeStep(t) + 1)

\* The clock advances.
Tick ==
    /\ clock < MaxClock
    /\ clock' = clock + 1
    /\ UNCHANGED <<usedCodes, totpCall, accepts, cleanupOn, totpRest>>

\* ValidateTOTP(code, secret) up to its test of totp.Validate:
\* cleanupOnce.Do(startTOTPCleanup), and return false on a code that is not
\* valid now.
ValidateTOTP(c) ==
    /\ totpCall[c].pc = "idle"
    /\ cleanupOn' = TRUE
    /\ \E code \in TotpCodes, secret \in Secrets :
         totpCall' = [totpCall EXCEPT ![c] =
                        IF totpValidate(code, secret, clock)
                        THEN [pc |-> "store", code |-> code, secret |-> secret]
                        ELSE NoCall]
    /\ UNCHANGED <<clock, usedCodes, accepts, totpRest>>

\* Mutant: the used code is kept for one time step only.
ValidateTOTP_LoadOrStore_ShortTTL(c) ==
    /\ totpCall[c].pc = "store"
    /\ LET key == TotpKey(totpCall[c].code, totpCall[c].secret) IN
       IF usedCodes[key].stored
       THEN UNCHANGED <<usedCodes, accepts>>
       ELSE /\ usedCodes' = [usedCodes EXCEPT ![key] =
                               [stored |-> TRUE, expiry |-> clock + TotpPeriod]]
            /\ accepts' = [accepts EXCEPT ![key] = Append(@, clock)]
    /\ totpCall' = [totpCall EXCEPT ![c] = NoCall]
    /\ UNCHANGED <<clock, cleanupOn, totpRest>>

\* _, alreadyUsed := usedCodes.LoadOrStore(key, time.Now().Add(90*time.Second))
\* return !alreadyUsed
ValidateTOTP_LoadOrStore(c) ==
    /\ totpCall[c].pc = "store"
    /\ LET key == TotpKey(totpCall[c].code, totpCall[c].secret) IN
       IF usedCodes[key].stored
       THEN UNCHANGED <<usedCodes, accepts>>
       ELSE /\ usedCodes' = [usedCodes EXCEPT ![key] =
                               [stored |-> TRUE, expiry |-> clock + UsedTTL]]
            /\ accepts' = [accepts EXCEPT ![key] = Append(@, clock)]
    /\ totpCall' = [totpCall EXCEPT ![c] = NoCall]
    /\ UNCHANGED <<clock, cleanupOn, totpRest>>

\* The cleanup goroutine, at a tick of its ticker, on entry k:
\* if v.(time.Time).Before(now) { usedCodes.Delete(k) }
Cleanup(k) ==
    /\ cleanupOn
    /\ usedCodes[k].stored
    /\ usedCodes[k].expiry < clock
    /\ usedCodes' = [usedCodes EXCEPT ![k] = NotStored]
    /\ UNCHANGED <<clock, totpCall, accepts, cleanupOn, totpRest>>

TotpNext ==
    \/ Tick
    \/ \E c \in TotpCallers : ValidateTOTP(c)
    \/ \E c \in TotpCallers : ValidateTOTP_LoadOrStore(c)
    \/ \E k \in TotpKeys : Cleanup(k)

TotpSpec == Init /\ [][TotpNext]_vars

(***************************************************************************)
(* The login flow: AuthHandler.Login, TOTPHandler.Verify,                  *)
(* AuthHandler.Refresh and the Authenticate middleware                     *)
(***************************************************************************)
\* users.totp_enabled: the first user has two-factor authentication enabled.
TOTPEnabled == [u \in Users |-> u = "u1"]

\* A token signed with the server's secret: Claims.UserID and Claims.TokenType.
Token(u, type) == [user |-> u, type |-> type]
TokenTypes == {"access", "refresh", "totp_pending"}

\* A token that was not signed with the server's secret.
Forged == [user |-> "u1", type |-> "forged"]

\* The tokens a client can present: those it was issued, or a forged one.
Tokens == [user : Users, type : TokenTypes] \cup {Forged}
Presentable(t) == t \in held \cup {Forged}

\* auth.ValidateToken: the signature and the expiry are checked, the token
\* type is not.
ValidateToken(t) == t # Forged

\* POST /api/auth/login with the user's e-mail: wrong password, or the
\* pending token when two-factor authentication is enabled, or the access
\* and refresh tokens.
Login(u) ==
    /\ \E match \in BOOLEAN :
         held' = IF ~match THEN held
                 ELSE IF TOTPEnabled[u] THEN held \cup {Token(u, "totp_pending")}
                 ELSE held \cup {Token(u, "access"), Token(u, "refresh")}
    /\ UNCHANGED <<verified, served, authRest>>

\* POST /api/auth/2fa/verify with token t and a code that auth.ValidateTOTP
\* accepts or not.
Verify(t) ==
    /\ Presentable(t)
    /\ \E codeOK \in BOOLEAN :
         IF ValidateToken(t) /\ t.type = "totp_pending" /\ TOTPEnabled[t.user] /\ codeOK
         THEN /\ verified' = verified \cup {t.user}
              /\ held' = held \cup {Token(t.user, "access"), Token(t.user, "refresh")}
         ELSE UNCHANGED <<verified, held>>
    /\ UNCHANGED <<served, authRest>>

\* Mutant: Refresh accepts refresh tokens only.
Refresh_TypeChecked(t) ==
    /\ Presentable(t)
    /\ held' = IF ValidateToken(t) /\ t.type = "refresh"
               THEN held \cup {Token(t.user, "access")}
               ELSE held
    /\ UNCHANGED <<verified, served, authRest>>

\* POST /api/auth/refresh with t in the refresh_token cookie.
Refresh(t) ==
    /\ Presentable(t)
    /\ held' = IF ValidateToken(t) THEN held \cup {Token(t.user, "access")} ELSE held
    /\ UNCHANGED <<verified, served, authRest>>

\* A route behind mw.Authenticate requested with token t.
Authenticate(t) ==
    /\ Presentable(t)
    /\ ValidateToken(t)
    /\ t.type = "access"
    /\ served' = served \cup {t.user}
    /\ UNCHANGED <<held, verified, authRest>>

AuthNext ==
    \/ \E u \in Users : Login(u)
    \/ \E t \in Tokens : Verify(t)
    \/ \E t \in Tokens : Refresh(t)
    \/ \E t \in Tokens : Authenticate(t)

AuthSpec == Init /\ [][AuthNext]_vars

(***************************************************************************)
(* Properties                                                              *)
(***************************************************************************)
Range(seq) == { seq[i] : i \in 1..Len(seq) }

Count(seq, x) == Cardinality({ i \in 1..Len(seq) : seq[i] = x })

\* The engine has taken the credential from the connect payload.
CredentialTaken == credential # EmptyString

\* The rows of the sessions table inserted while serving this request.
MyRows == { i \in 1..Len(sessions) : sessions[i].mine }

\* zeroString has been applied to the terminal engine's credential.
ZeroStringApplied ==
    /\ kind = "ssh"
    /\ CredentialTaken
    /\ pc \in {"unwind", "done"}
    /\ "zeroString" \notin Range(defers)

\* The server messages of a terminal connection that fails before the shell
\* runs: one error and the closing message.
HCErrors ==
    {"host not found", "invalid private key", "connection failed",
     "failed to create SSH session", "failed to request PTY", "stdin pipe error",
     "stdout pipe error", "stderr pipe error", "failed to start shell"}

\* C1: whenever HandleConnection has returned after taking the credential,
\* on whichever path, its variable credential reads as zero bytes only
\* (zeroString has been applied to it).
C1_CredentialZeroedOnReturn ==
    (hc = "returned" /\ CredentialTaken) => IsZeroed(StrRead(heap, credential))

\* C1 witness: HandleConnection returned after a session that streamed, with
\* a credential variable of positive length reading zero.
C1_Witness ==
    /\ hc = "returned"
    /\ remote.shell
    /\ credential.len > 0
    /\ IsZeroed(StrRead(heap, credential))

\* C2 as claimed: once the engine streams (connected emitted, loops running)
\* the credential reads as zero bytes.
C2_ZeroedWhileStreaming ==
    (kind = "ssh" /\ pc \in {"loop", "read"}) => IsZeroed(StrRead(heap, credential))

\* C3 as claimed: once zeroString has been applied, the Credential field of
\* the connect payload no longer reads as the plaintext.
C3_PayloadStorageZeroed ==
    ZeroStringApplied => IsZeroed(StrRead(heap, payload.Credential))

\* C4 as claimed: when the file-transfer handler has returned after taking
\* the credential, the credential reads as zero bytes.
C4_SftpCredentialZeroed ==
    (kind = "sftp" /\ pc = "done" /\ CredentialTaken)
        => IsZeroed(StrRead(heap, credential))

\* C5: every dial, of either engine, goes to the address of a hosts row
\* whose id is the requested host id and whose owner is the caller.
C5_DialOnlyOwnedHost ==
    \A i \in 1..Len(dialled) :
        \E h \in HostsTable :
            /\ h.ID = payload.HostID
            /\ h.UserID = user
            /\ dialled[i] = <<DialAddress(h), user>>

\* C5 witness: the file-transfer engine has dialled for user u2.
C5_Witness == kind = "sftp" /\ user = "u2" /\ Len(dialled) = 1

\* The requested host id names a row owned by another user / names no row.
ForeignHost == \E h \in HostsTable : h.ID = payload.HostID /\ h.UserID # user
AbsentHost == \A h \in HostsTable : h.ID # payload.HostID

\* The gateway accepted the first message as a connect.
ConnectAccepted == payload.HostID # "" /\ payload.Credential # EmptyString

\* What a connect for a host id of no row produces, per endpoint.
NotFoundMessages ==
    IF kind = "ssh" THEN <<ErrorMsg("host not found"), ClosedMsg>>
    ELSE <<ErrorMsg("host not found")>>

\* C6: a served connect for a host owned by another user and one for a host
\* id of no row end with the same messages sent (the not-found error, same
\* text) and the same effects: no dial, no remote state, sessions table
\* untouched, no CloseSession call.
C6_ForeignAsAbsent ==
    (pc = "done" /\ ConnectAccepted /\ (ForeignHost \/ AbsentHost))
        => /\ out = NotFoundMessages
           /\ dialled = <<>>
           /\ remote = NoRemote
           /\ sessions = InitialSessions
           /\ dbCloses = <<>>
           /\ credential = EmptyString

\* C6 witness: a connect for another user's host has been served to the end
\* by the terminal endpoint while the database answered.
C6_Witness ==
    /\ pc = "done"
    /\ kind = "ssh"
    /\ ConnectAccepted
    /\ ForeignHost
    /\ ~ctxDone
    /\ out = NotFoundMessages

\* C7 as claimed: every connected message of the terminal engine carries
\* the id of the one sessions row inserted for this connection.
C7_ConnectedHasItsRecord ==
    \A i \in 1..Len(out) :
        (kind = "ssh" /\ out[i][1] = "connected")
            => /\ Cardinality(MyRows) = 1
               /\ \A r \in MyRows : SessionIDs[r] = out[i][2]

\* C8 as claimed: when the request has been served, every sessions row
\* inserted for it has its end timestamp set, by exactly one UPDATE.
C8_RecordClosedAtEnd ==
    pc = "done" =>
        \A r \in MyRows : sessions[r].ended_at /\ sessions[r].updates = 1

\* C9: as long as the remote shell has not been started, the terminal
\* endpoint has inserted no sessions row and made no CloseSession call, up
\* to and including the end of the request; and a HandleConnection that
\* returned without a running shell sent one error and then closed.
C9_NoRecordBeforeShell ==
    (kind = "ssh" /\ ~remote.shell)
        => /\ MyRows = {}
           /\ sessionID = ""
           /\ dbCloses = <<>>
           /\ hc = "returned" =>
                \E e \in HCErrors : out = <<ErrorMsg(e), ClosedMsg>>

\* C9 witness: the request is over, the session was opened and closed
\* again, the shell never started, and nothing was recorded.
C9_Witness ==
    /\ kind = "ssh"
    /\ pc = "done"
    /\ hc = "returned"
    /\ remote.session = "closed"
    /\ ~remote.shell
    /\ MyRows = {}
    /\ dbCloses = <<>>

\* C10: a HandleConnection that has returned has sent the closed message
\* exactly once, and one that has not returned has not sent it.
C10_ExactlyOneClosed ==
    /\ hc = "returned" => Count(out, ClosedMsg) = 1
    /\ hc # "returned" => Count(out, ClosedMsg) = 0

\* C10 witness: HandleConnection returned after an explicit disconnect and
\* closed is the one closing message sent.
C10_Witness ==
    /\ hc = "returned"
    /\ remote.shell
    /\ inbox > 0
    /\ ~ctxDone
    /\ gor["stdout"].pc = "read"
    /\ Count(out, ClosedMsg) = 1

\* The first message the gateway received is a connect envelope whose payload
\* decodes and names a host and a credential.
WellFormedConnect ==
    /\ first.json
    /\ first.type = "connect"
    /\ first.payloadOK
    /\ payload.HostID # ""
    /\ payload.Credential.len # 0

\* The errors the two gateways answer to a first message they reject.
GatewayErrors ==
    {"invalid message format", "expected connect message",
     "invalid connect payload", "host_id and credential are required"}

\* C11: on an upgraded connection whose first message the gateway received,
\* the client stream has carried a connected, an error or a closed message
\* by the time the gateway closes it.
C11_AnsweredBeforeClose ==
    (ws = "closed" /\ first # NoMsg) =>
        \E i \in 1..Len(out) : out[i][1] \in {"connected", "error", "closed"}

\* C11 witness: the file-transfer gateway received a connect, dialled, failed
\* to open the subsystem, reported it and closed the stream.
C11_Witness ==
    /\ kind = "sftp"
    /\ ws = "closed"
    /\ first # NoMsg
    /\ dialled # <<>>
    /\ out = <<ErrorMsg("failed to open SFTP subsystem")>>

\* C12: after a first message that is not a well-formed connect, the stream
\* carries exactly one message, a gateway error; no host was looked up, no
\* dial made, no session record created, the engine never entered; and the
\* stream is closed when the request ends.
C12_RejectedFirstMessage ==
    (first # NoMsg /\ ~WellFormedConnect) =>
        /\ \E e \in GatewayErrors : out = <<ErrorMsg(e)>>
        /\ host = NoHost
        /\ dialled = <<>>
        /\ sessions = InitialSessions
        /\ dbCloses = <<>>
        /\ hc = "none"
        /\ pc \in {"unwind", "done"}
        /\ pc = "done" => ws = "closed"

\* C12 witness: the terminal gateway rejected a connect that names a host but
\* carries an empty credential, and the request has ended.
C12_Witness ==
    /\ kind = "ssh"
    /\ pc = "done"
    /\ first = [json |-> TRUE, type |-> "connect", payloadOK |-> TRUE]
    /\ payload.HostID = "h1"
    /\ payload.Credential.len = 0
    /\ out = <<ErrorMsg("host_id and credential are required")>>

\* An output message that carries a chunk of the remote stdout.
IsStdoutOutput(m) ==
    /\ m[1] = "output"
    /\ \E i \in 1..Len(RemoteChunks["stdout"]) : m[2] = RemoteChunks["stdout"][i]

\* The stdout chunk that was read and is about to be sent, if any.
StdoutInHand ==
    IF gor["stdout"].pc = "send" THEN <<OutputMsg(gor["stdout"].buf)>> ELSE <<>>

\* C13: the output messages written for the remote stdout, followed by the
\* chunk in the forwarder's hands, are exactly the non-empty chunks read so
\* far, one message per chunk, in read order.
C13_StdoutForwardedInOrder ==
    SelectSeq(out, IsStdoutOutput) \o StdoutInHand =
        [i \in 1..produced["stdout"] |-> OutputMsg(RemoteChunks["stdout"][i])]

\* C13 witness: both stdout chunks were forwarded with the stderr chunk
\* written between them, and the stdout stream has ended.
C13_Witness ==
    /\ produced["stdout"] = 2
    /\ gor["stdout"].pc = "exit"
    /\ \E i \in 1..Len(out) :
         /\ i + 2 <= Len(out)
         /\ out[i] = OutputMsg("ab")
         /\ out[i + 1] = OutputMsg("e1")
         /\ out[i + 2] = OutputMsg("cd")

\* The step in which the engine loop reads one client message.
LoopRead == pc = "read" /\ inbox' = inbox + 1

\* The message just read decodes as a message of type t with a payload of
\* that type.
ReadA(t) == msg'.json /\ msg'.payloadOK /\ msg'.type = t

\* C14: the engine applies a client message in the step that reads it, before
\* it reads the next one: an input is appended to what was written to the
\* remote stdin, a resize sets the pty window to the rows and columns sent,
\* and nothing else touches the remote side.
C14_AppliedInArrivalOrder ==
    [][LoopRead =>
         IF ReadA("input")
         THEN remote' = [remote EXCEPT !.stdin = Append(remote.stdin, msg'.Data)]
         ELSE IF ReadA("resize")
         THEN remote' = [remote EXCEPT !.pty = <<msg'.Rows, msg'.Cols>>]
         ELSE remote' = remote]_vars

\* C14 witness: a resize was applied and then an input written, the pty
\* showing the new size while the loop holds the input message.
C14_Witness ==
    /\ pc = "loop"
    /\ inbox = 2
    /\ msg.type = "input"
    /\ remote.pty = <<30, 100>>
    /\ remote.stdin = <<"ls">>

\* The goroutines that are inside a WriteMessage call on the stream.
Writing == {t \in Goroutines : callers[t].pc \in {"writing", "rawwrite"}}

\* C15: at most one goroutine at a time is inside a write of the client
\* stream.
C15_WritesMutuallyExclusive == Cardinality(Writing) <= 1

\* C15 witness: the stdout forwarder is writing while the stderr forwarder
\* and the request's own goroutine wait for the mutex.
C15_Witness ==
    /\ callers["stdout"].pc = "writing"
    /\ callers["stderr"].pc = "lock"
    /\ callers["main"].pc = "lock"
    /\ writeMu = "stdout"

\* The steps of the terminal engine's own goroutine that wait for nothing
\* from the client: the select at the top of the loop and the deferred calls
\* of its return.
EngineStep ==
    \/ HC_LoopSelect
    \/ Defer_cancel
    \/ Defer_sessionClose
    \/ Defer_clientClose
    \/ Defer_zeroString
    \/ Defer_sendClosed

\* C16: once the remote stdout has ended and cancel() was called, the engine
\* has a step of its own towards its return for as long as it has not
\* returned: it never waits for the client.
C16_EndsWithoutClient ==
    (hc = "running" /\ gor["stdout"].pc = "exit" /\ cancelled) => ENABLED EngineStep

\* C17: the engine leaves its loop at the select only when cancel() was
\* called for the end of the remote stdout; its other exits are the read
\* error and the disconnect message of the client.
C17_NoDeadlineEndsSession ==
    [][(pc = "loop" /\ pc' = "unwind") => cancelled]_vars

\* The step in which the file-transfer request loop reads one message.
SftpRead == pc = "sftp_read" /\ inbox' = inbox + 1

\* The last message written to the client stream after the step.
Answer == out'[Len(out')]

\* C18: a request read by the file-transfer loop, failed or not, leaves the
\* loop at its read with the stream, the remote connection and the subsystem
\* open; and a well-formed request is answered by exactly one message, its
\* result or an error, whatever failed before.
C18_FailureKeepsServing ==
    [][SftpRead =>
         /\ pc' = "sftp_read"
         /\ ws' = "open"
         /\ remote' = remote
         /\ remote.client = "open"
         /\ remote.session = "open"
         /\ defers' = defers
         /\ (msg'.json /\ msg'.type \in SftpTypes /\ msg'.payloadOK) =>
               /\ Len(out') = Len(out) + 1
               /\ Answer \in {ErrorMsg(msg'.type), <<"ls_result">>, <<"get_result">>,
                              <<"done", msg'.type>>}]_vars

\* C18 witness: a get failed and was answered by an error, and the ls that
\* followed was served.
C18_Witness ==
    /\ pc = "sftp_read"
    /\ Len(out) = 3
    /\ out[2] = ErrorMsg("get")
    /\ out[3] = <<"ls_result">>
    /\ msg.type = "ls"

\* The step in which either engine reads a message after the first.
LaterRead == pc \in {"read", "sftp_read"} /\ inbox' = inbox + 1

\* C19: a connect read after the first message changes neither the host
\* looked up, nor the dials made, nor the session records, nor the remote
\* side; and a stream never has more than one dial or one session record.
C19_OneSessionPerStream ==
    /\ [][(LaterRead /\ msg'.json /\ msg'.type = "connect") =>
            /\ host' = host
            /\ dialled' = dialled
            /\ sessions' = sessions
            /\ sessionID' = sessionID
            /\ remote' = remote]_vars
    /\ [](Len(dialled) <= 1 /\ Cardinality(MyRows) <= 1)

\* C19 witness: the terminal engine, streaming on its one dial and one
\* record, has just read a second connect.
C19_Witness ==
    /\ kind = "ssh"
    /\ pc = "loop"
    /\ msg.json
    /\ msg.type = "connect"
    /\ Len(dialled) = 1
    /\ Cardinality(MyRows) = 1

\* The message types each engine's loop has a case for.
KnownTypes == IF kind = "ssh" THEN {"input", "resize", "disconnect"} ELSE SftpTypes

\* C20: a message of a type the loop has no case for is ignored: nothing is
\* written to the client, the remote side and the session records do not
\* change, and the loop goes on reading.
C20_UnknownTypeIgnored ==
    [][(LaterRead /\ msg'.json /\ msg'.type \notin KnownTypes) =>
         /\ out' = out
         /\ remote' = remote
         /\ sessions' = sessions
         /\ dbCloses' = dbCloses
         /\ ws' = ws
         /\ defers' = defers
         /\ pc' = IF kind = "ssh" THEN "loop" ELSE "sftp_read"]_vars

\* C20 witness: the file-transfer loop has read a message of an unknown type
\* and waits for the next, having written nothing since connected.
C20_Witness ==
    /\ kind = "sftp"
    /\ pc = "sftp_read"
    /\ msg.json
    /\ msg.type = "ping"
    /\ Len(out) = 1

\* The message just read after the first is no JSON envelope, or is of a
\* type the loop knows with a payload that does not decode for that type.
Malformed == ~msg'.json \/ (msg'.type \in KnownTypes /\ ~msg'.payloadOK)

\* C21: a malformed envelope or a payload of the wrong shape read after the
\* first message is answered by one error message, and the loop goes on
\* reading.
C21_MalformedReported ==
    [][(LaterRead /\ Malformed) =>
         /\ Len(out') = Len(out) + 1
         /\ Answer[1] = "error"
         /\ pc' = IF kind = "ssh" THEN "loop" ELSE "sftp_read"]_vars

\* C22: a request without a caller identity never has its stream upgraded,
\* exchanges no protocol message, causes no host lookup and no dial, and ends
\* with status 401.
C22_NoIdentityNoUpgrade ==
    user = NoUser =>
        /\ ws = "none"
        /\ out = <<>>
        /\ first = NoMsg
        /\ host = NoHost
        /\ dialled = <<>>
        /\ httpStatus \in {0, 401}
        /\ pc = "done" => httpStatus = 401

\* C22 witness: a request without identity on the file-transfer endpoint was
\* answered 401.
C22_Witness ==
    /\ kind = "sftp"
    /\ user = NoUser
    /\ pc = "done"
    /\ httpStatus = 401

\* C26: a file-transfer connection leaves the sessions table as it found it
\* and calls neither CreateSession nor CloseSession.
C26_SftpLeavesSessionRecords ==
    kind = "sftp" =>
        /\ sessions = InitialSessions
        /\ sessionID = ""
        /\ dbCloses = <<>>

\* C26 witness: a file-transfer connection that served two requests has
\* ended with the sessions table unchanged.
C26_Witness ==
    /\ kind = "sftp"
    /\ pc = "done"
    /\ inbox = 2
    /\ remote.session = "closed"
    /\ sessions = InitialSessions

\* C29: closed is the last message written to a terminal stream.
C29_ClosedIsFinal ==
    \A i \in 1..Len(out) : out[i] = ClosedMsg => i = Len(out)

\* C30: a client message read once cancel() was called changes nothing on
\* the remote side.
C30_NothingAppliedAfterCancel ==
    [][(LoopRead /\ cancelled) => remote' = remote]_vars

\* The code of key k is one totp.Validate accepts at tick t.
ValidAt(k, t) == totpValidate(k.code, k.secret, t)

C28_AccessOnlyAfterCode ==
    \A t \in held :
        (t.type = "access" /\ TOTPEnabled[t.user]) => t.user \in verified

(***************************************************************************)
(* Origin check of the upgrade (OriginSpec)                                *)
(*                                                                         *)
(* Strings are sequences of characters, so that splitting and trimming are *)
(* computed.  "a" and "b" stand for the characters of an origin, the space *)
(* and the comma are themselves.                                           *)
(***************************************************************************)
MaxConfigLen == 3
MaxOriginLen == 2
MaxFrames == 1

OriginChars == {"a", "b"}
ConfigChars == OriginChars \cup {" ", ","}

\* Every string over the alphabet of at most n characters.
StringsUpTo(alphabet, n) == UNION {[1..k -> alphabet] : k \in 0..n}

\* The fallback of getEnv("ALLOWED_ORIGINS", "http://localhost:5173").
DefaultOrigins == <<"a">>

\* strings.Split(s, ","): the segments between the commas, "" included; a
\* string without comma is its own single segment.
RECURSIVE SplitFrom(_, _, _)
SplitFrom(s, i, seg) ==
    IF i > Len(s) THEN <<seg>>
    ELSE IF s[i] = "," THEN <<seg>> \o SplitFrom(s, i + 1, <<>>)
    ELSE SplitFrom(s, i + 1, Append(seg, s[i]))

Split(s) == SplitFrom(s, 1, <<>>)

\* strings.TrimSpace(s): s without its leading and trailing spaces.
RECURSIVE TrimLeft(_)
TrimLeft(s) ==
    IF s # <<>> /\ Head(s) = " " THEN TrimLeft(Tail(s)) ELSE s

RECURSIVE TrimRight(_)
TrimRight(s) ==
    IF s # <<>> /\ s[Len(s)] = " " THEN TrimRight(SubSeq(s, 1, Len(s) - 1)) ELSE s

TrimSpace(s) == TrimRight(TrimLeft(s))

\* Mutant of CheckOrigin: the entry is compared as configured.
CheckOrigin_Exact(origin, allowedOrigins) ==
    \/ origin = <<>>
    \/ \E i \in DOMAIN allowedOrigins : origin = allowedOrigins[i]

\* upgrader.CheckOrigin of both handlers.
CheckOrigin(origin, allowedOrigins) ==
    \/ origin = <<>>
    \/ \E i \in DOMAIN allowedOrigins : origin = TrimSpace(allowedOrigins[i])

\* config.Load: ALLOWED_ORIGINS from the environment, the fallback when it is
\* empty or unset.
config_Load(val) ==
    /\ cfgAllowedOrigins = <<>>
    /\ cfgAllowedOrigins' = IF val # <<>> THEN val ELSE DefaultOrigins
    /\ UNCHANGED <<origins, reqOrigin, upgrade, frames, originRest>>

\* NewRouter: origins := strings.Split(cfg.AllowedOrigins, ","), handed to
\* ws.NewHandler and sftpws.NewHandler.
NewRouter ==
    /\ cfgAllowedOrigins # <<>>
    /\ origins = <<>>
    /\ origins' = Split(cfgAllowedOrigins)
    /\ UNCHANGED <<cfgAllowedOrigins, reqOrigin, upgrade, frames, originRest>>

\* An authenticated upgrade request arrives at /ws/ssh or /ws/sftp; net/http
\* hands the Origin value over without surrounding spaces, "" when absent.
Origin_Request(o) ==
    /\ origins # <<>>
    /\ user # NoUser
    /\ upgrade = "none"
    /\ reqOrigin' = o
    /\ upgrade' = "pending"
    /\ UNCHANGED <<cfgAllowedOrigins, origins, frames, originRest>>

\* h.upgrader.Upgrade(w, r, nil): refused by CheckOrigin, the handler logs
\* and returns.
Origin_Upgrade ==
    /\ upgrade = "pending"
    /\ upgrade' = IF CheckOrigin(reqOrigin, origins) THEN "allowed" ELSE "refused"
    /\ UNCHANGED <<cfgAllowedOrigins, origins, reqOrigin, frames, originRest>>

\* conn.ReadMessage / WriteMessage on the connection Upgrade returned.
Origin_Exchange ==
    /\ upgrade = "allowed"
    /\ frames < MaxFrames
    /\ frames' = frames + 1
    /\ UNCHANGED <<cfgAllowedOrigins, origins, reqOrigin, upgrade, originRest>>

OriginNext ==
    \/ \E val \in StringsUpTo(ConfigChars, MaxConfigLen) : config_Load(val)
    \/ NewRouter
    \/ \E o \in StringsUpTo(OriginChars, MaxOriginLen) : Origin_Request(o)
    \/ Origin_Upgrade
    \/ Origin_Exchange

OriginSpec == Init /\ [][OriginNext]_vars

\* The configured allowed origins: the maximal comma-free pieces of the
\* configured list.
ConfiguredOrigins(cfg) ==
    {SubSeq(cfg, i, j) : <<i, j>> \in
        {p \in (1..Len(cfg) + 1) \X (0..Len(cfg)) :
            /\ p[2] >= p[1] - 1
            /\ \A k \in p[1]..p[2] : cfg[k] # ","
            /\ p[1] = 1 \/ cfg[p[1] - 1] = ","
            /\ p[2] = Len(cfg) \/ cfg[p[2] + 1] = ","}}

Spaces(n) == [k \in 1..n |-> " "]

\* Entry e is origin o with spaces around it.
Padded(o, e) ==
    \E l, r \in 0..Len(e) : e = Spaces(l) \o o \o Spaces(r)

Decided == upgrade \in {"allowed", "refused"}

\* C23 as stated: the upgrade is allowed exactly when the request has no
\* Origin header or its Origin is equal, character for character, to one of
\* the configured allowed origins; messages are exchanged only after an
\* allowed upgrade.
C23_ExactOriginOnly ==
    /\ Decided =>
          (upgrade = "allowed" <=>
              \/ reqOrigin = <<>>
              \/ reqOrigin \in ConfiguredOrigins(cfgAllowedOrigins))
    /\ frames > 0 => upgrade = "allowed"

\* C23, amended: the upgrade is allowed exactly when the request has no
\* Origin header or its Origin is equal to one of the configured allowed
\* origins once the spaces around that configured origin are left out;
\* messages are exchanged only after an allowed upgrade.
C23_TrimmedOriginOnly ==
    /\ Decided =>
          (upgrade = "allowed" <=>
              \/ reqOrigin = <<>>
              \/ \E e \in ConfiguredOrigins(cfgAllowedOrigins) :
                    Padded(reqOrigin, e))
    /\ frames > 0 => upgrade = "allowed"

\* An origin that is configured with a space before it is allowed and a
\* message is exchanged.
C23_Witness ==
    /\ upgrade = "allowed"
    /\ frames > 0
    /\ reqOrigin # <<>>
    /\ reqOrigin \notin ConfiguredOrigins(cfgAllowedOrigins)

(***************************************************************************)
(* Directory listing of the file-transfer engine (FileSpec)                *)
(***************************************************************************)
\* The remote file system: its directories and what each holds.
RemoteDirs == {"/", "/home/u"}
File(name, isDir) == [name |-> name, is_dir |-> isDir]
DirContents ==
    [d \in RemoteDirs |->
        IF d = "/" THEN {File("home", TRUE), File("a", FALSE)}
        ELSE {File("a", FALSE), File("b", TRUE), File("c", FALSE)}]

\* The paths a client asks for; "" stands for the home, "/nope" does not exist.
LsPaths == {"", "/", "/home/u", "/nope"}
LsRequests == [type : {"ls"}, path : LsPaths] \cup {[type |-> "ls_invalid", path |-> ""]}

LsError == [type |-> "error", path |-> "", entries |-> <<>>]

\* name.localeCompare: the rank of a name in the collation order.
NameOrder == <<"a", "b", "c", "home">>
Rank(n) == CHOOSE i \in DOMAIN NameOrder : NameOrder[i] = n

\* sftpClient.ReadDir returns the entries in the order the server sent them:
\* any order.
Orders(S) ==
    {s \in [1..Cardinality(S) -> S] : \A i, j \in DOMAIN s : s[i] = s[j] => i = j}

\* home, err := sftpClient.Getwd(); if err != nil { home = "/" }
ls_Getwd(ok, wd) ==
    /\ kind = "sftp"
    /\ user # NoUser
    /\ ~getwd.called
    /\ getwd' = [called |-> TRUE, ok |-> ok, dir |-> IF ok THEN wd ELSE ""]
    /\ homeDir' = IF ok THEN wd ELSE "/"
    /\ UNCHANGED <<lsReq, lsResult, pageEntries, fileRest>>

\* wsConn.ReadMessage() returns an ls message.
ls_Read(r) ==
    /\ getwd.called
    /\ lsReq' = r
    /\ lsResult' = NoLsResult
    /\ UNCHANGED <<getwd, homeDir, pageEntries, fileRest>>

\* Mutant of ls_Answer: an empty path lists the root.
ls_Answer_Root(readOK) ==
    /\ lsReq # NoLs
    /\ lsResult = NoLsResult
    /\ LET p == IF lsReq.path = "" THEN "/" ELSE lsReq.path IN
       IF lsReq.type = "ls_invalid" \/ p \notin RemoteDirs \/ ~readOK
       THEN lsResult' = LsError
       ELSE \E entries \in Orders(DirContents[p]) :
               lsResult' = [type |-> "ls_result", path |-> p, entries |-> entries]
    /\ UNCHANGED <<getwd, homeDir, lsReq, pageEntries, fileRest>>

\* case msgLS: a payload that does not decode and a failing ReadDir are
\* answered with an error; an empty path becomes home; the entries are sent
\* in ReadDir's order.
ls_Answer(readOK) ==
    /\ lsReq # NoLs
    /\ lsResult = NoLsResult
    /\ LET p == IF lsReq.path = "" THEN homeDir ELSE lsReq.path IN
       IF lsReq.type = "ls_invalid" \/ p \notin RemoteDirs \/ ~readOK
       THEN lsResult' = LsError
       ELSE \E entries \in Orders(DirContents[p]) :
               lsResult' = [type |-> "ls_result", path |-> p, entries |-> entries]
    /\ UNCHANGED <<getwd, homeDir, lsReq, pageEntries, fileRest>>

\* The comparator of the page: directories first, then by name.
Before(a, b) ==
    IF a.is_dir # b.is_dir THEN a.is_dir ELSE Rank(a.name) < Rank(b.name)

\* newEntries.sort(comparator), as an insertion sort.
RECURSIVE Insert(_, _)
Insert(e, s) ==
    IF s = <<>> THEN <<e>>
    ELSE IF Before(e, Head(s)) THEN <<e>> \o s
    ELSE <<Head(s)>> \o Insert(e, Tail(s))

RECURSIVE SortEntries(_)
SortEntries(s) ==
    IF s = <<>> THEN <<>> ELSE Insert(Head(s), SortEntries(Tail(s)))

\* onLSResult of the file page: the entries are sorted before they are kept.
onLSResult ==
    /\ lsResult.type = "ls_result"
    /\ pageEntries' = SortEntries(lsResult.entries)
    /\ UNCHANGED <<getwd, homeDir, lsReq, lsResult, fileRest>>

FileNext ==
    \/ \E ok \in BOOLEAN, wd \in RemoteDirs : ls_Getwd(ok, wd)
    \/ \E r \in LsRequests : ls_Read(r)
    \/ \E readOK \in BOOLEAN : ls_Answer(readOK)
    \/ onLSResult

FileSpec == Init /\ [][FileNext]_vars

Listed(s) == {s[i] : i \in DOMAIN s}

\* C24: an ls request with an empty path that is answered with a listing is
\* answered with the entries of the home directory, which is the remote
\* working directory, or "/" when Getwd failed, and the ls_result carries that
\* directory, never the empty string, as its path.
C24_EmptyPathListsHome ==
    (lsReq.type = "ls" /\ lsReq.path = "" /\ lsResult.type = "ls_result") =>
        /\ homeDir = IF getwd.ok THEN getwd.dir ELSE "/"
        /\ lsResult.path = homeDir
        /\ lsResult.path # ""
        /\ Listed(lsResult.entries) = DirContents[homeDir]

\* An empty path was answered with the listing of a working directory that
\* is not the root.
C24_Witness ==
    /\ lsReq.type = "ls" /\ lsReq.path = ""
    /\ lsResult.type = "ls_result"
    /\ getwd.ok /\ getwd.dir = "/home/u"

Sorted(s) == \A i, j \in DOMAIN s : i < j => ~Before(s[j], s[i])

\* C25: the entries of an ls_result are sorted with directories before
\* files and, within each group, by name.
C25_EntriesSorted ==
    lsResult.type = "ls_result" => Sorted(lsResult.entries)

\* What the page keeps after onLSResult is sorted.
PageEntriesSorted == Sorted(pageEntries)

\* C38: once the pseudo-terminal has been requested, it has the columns and
\* rows of the connect message, a reported 0 being replaced by 80 columns
\* and by 24 rows, each dimension on its own.
C38_PtyFromConnect ==
    pc = "hc_stdin" =>
        /\ payload.Cols # 0 => remote.pty[2] = payload.Cols
        /\ payload.Cols = 0 => remote.pty[2] = 80
        /\ payload.Rows # 0 => remote.pty[1] = payload.Rows
        /\ payload.Rows = 0 => remote.pty[1] = 24

\* A connect reporting 0 columns and 40 rows got a pseudo-terminal of 80
\* columns and 40 rows.
C38_Witness ==
    /\ pc = "hc_stdin"
    /\ payload.Cols = 0 /\ payload.Rows = 40
    /\ remote.pty = <<40, 80>>

\* The message that reports the success of a file-transfer request.
ResultOf(type) ==
    IF type = "ls" THEN <<"ls_result">>
    ELSE IF type = "get" THEN <<"get_result">>
    ELSE <<"done", type>>

\* C31: the step that reads a well-formed request of a recognized type adds
\* exactly one message after all the messages sent before, the result of
\* that request or an error; and while the loop waits for the next request
\* nothing else is sent, so responses leave in the order of the requests.
C31_OneResponseInOrder ==
    /\ [][(SftpRead /\ msg'.json /\ msg'.type \in SftpTypes /\ msg'.payloadOK) =>
            \E r \in {ResultOf(msg'.type), ErrorMsg(msg'.type)} :
                out' = Append(out, r)]_vars
    /\ [][(pc = "sftp_read" /\ pc' = "sftp_read" /\ ~SftpRead) => out' = out]_vars

\* A put and then a get were read, and their responses were sent in that
\* order after the connected message.
C31_Witness ==
    /\ pc = "sftp_read"
    /\ inbox = 2
    /\ msg.type = "get"
    /\ Len(out) = 3
    /\ out[2] = <<"done", "put">>
    /\ out[3] = <<"get_result">>

(***************************************************************************)
(* put and rm requests of the file-transfer engine (TransferSpec)          *)
(*                                                                         *)
(* The data of a put is a sequence of characters: "A" and "Q" are base64   *)
(* digits (values 0 and 16), "=" is the padding, "!" is outside the        *)
(* alphabet.                                                               *)
(***************************************************************************)
B64Digits == {"A", "Q"}
B64Value(c) == IF c = "Q" THEN 16 ELSE 0

\* One group of four characters is well-formed: digits, with one or two
\* padding characters allowed at the end of the last group only.
QuantumOK(q, last) ==
    /\ q[1] \in B64Digits
    /\ q[2] \in B64Digits
    /\ \/ q[3] \in B64Digits /\ q[4] \in B64Digits
       \/ q[3] \in B64Digits /\ q[4] = "=" /\ last
       \/ q[3] = "=" /\ q[4] = "=" /\ last

\* The one, two or three bytes a well-formed group stands for.
QuantumBytes(q) ==
    LET b1 == B64Value(q[1]) * 4 + B64Value(q[2]) \div 16
        b2 == (B64Value(q[2]) % 16) * 16 + B64Value(q[3]) \div 4
        b3 == (B64Value(q[3]) % 4) * 64 + B64Value(q[4])
    IN  IF q[3] = "=" THEN <<b1>>
        ELSE IF q[4] = "=" THEN <<b1, b2>>
        ELSE <<b1, b2, b3>>

\* base64.StdEncoding.DecodeString: the bytes, or a failure.
RECURSIVE DecodeString(_)
DecodeString(s) ==
    IF s = <<>> THEN [ok |-> TRUE, bytes |-> <<>>]
    ELSE IF Len(s) < 4 \/ ~QuantumOK(SubSeq(s, 1, 4), Len(s) = 4)
    THEN [ok |-> FALSE, bytes |-> <<>>]
    ELSE LET rest == DecodeString(SubSeq(s, 5, Len(s))) IN
         [ok |-> rest.ok,
          bytes |-> IF rest.ok THEN QuantumBytes(SubSeq(s, 1, 4)) \o rest.bytes
                    ELSE <<>>]

\* The data a put may carry: well-formed with no, one and two padding
\* characters, empty, and malformed in length, alphabet and padding.
PutData ==
    { <<>>,
      <<"Q", "A", "Q", "Q">>, <<"Q", "Q", "A", "=">>, <<"A", "Q", "=", "=">>,
      <<"Q", "Q", "Q", "Q", "A", "Q", "=", "=">>,
      <<"Q", "Q", "Q">>, <<"Q", "Q", "!", "=">>, <<"Q", "=", "Q", "Q">>,
      <<"Q", "Q", "=", "Q">>, <<"Q", "Q", "=", "=", "Q", "Q", "Q", "Q">>,
      <<"Q", "Q", "Q", "Q", "Q">> }

XferRequests ==
    [type : {"put"}, payloadOK : {TRUE}, path : XferPaths, data : PutData]
    \cup [type : {"rm"}, payloadOK : {TRUE}, path : XferPaths, data : {<<>>}]
    \cup [type : {"put", "rm"}, payloadOK : {FALSE}, path : {""}, data : {<<>>}]

Call(op, ok) == [op |-> op, ok |-> ok]

\* wsConn.ReadMessage() returns a put or an rm message.
xfer_Read(r) ==
    /\ kind = "sftp"
    /\ user # NoUser
    /\ xferReq' = r
    /\ xferOut' = <<>>
    /\ sftpCalls' = <<>>
    /\ UNCHANGED <<remoteFs, xferRest>>

Pending(type) == xferReq.type = type /\ xferOut = <<>>

\* case msgPut with a payload that does not decode as JSON, or whose data
\* does not decode as base64.
put_Rejected ==
    /\ Pending("put")
    /\ ~xferReq.payloadOK \/ ~DecodeString(xferReq.data).ok
    /\ xferOut' = IF ~xferReq.payloadOK THEN ErrorMsg("invalid put payload")
                  ELSE ErrorMsg("invalid base64 data")
    /\ UNCHANGED <<remoteFs, xferReq, sftpCalls, xferRest>>

\* Mutant of put_Write: the file is opened before the data is decoded.
put_Write_OpenFirst(openOK, writeOK) ==
    /\ Pending("put")
    /\ xferReq.payloadOK
    /\ LET decoded == DecodeString(xferReq.data)
           p == xferReq.path
           opened == openOK /\ remoteFs[p].kind # "dir"
       IN  IF ~opened
           THEN /\ sftpCalls' = <<Call("OpenFile", FALSE)>>
                /\ remoteFs' = remoteFs
                /\ xferOut' = ErrorMsg("create")
           ELSE IF ~decoded.ok
           THEN /\ sftpCalls' = <<Call("OpenFile", TRUE)>>
                /\ remoteFs' = [remoteFs EXCEPT ![p] = [kind |-> "file", data |-> <<>>]]
                /\ xferOut' = ErrorMsg("invalid base64 data")
           ELSE /\ sftpCalls' = <<Call("OpenFile", TRUE), Call("Write", writeOK)>>
                /\ remoteFs' = [remoteFs EXCEPT ![p] =
                       [kind |-> "file", data |-> IF writeOK THEN decoded.bytes ELSE <<>>]]
                /\ xferOut' = IF writeOK THEN <<"done", "put">> ELSE ErrorMsg("write")
    /\ UNCHANGED <<xferReq, xferRest>>

\* case msgPut with decoded data: OpenFile(p.Path, O_WRONLY|O_CREATE|O_TRUNC)
\* creates or empties the file unless it fails (a directory cannot be opened
\* for writing), then f.Write(decoded).
put_Write(openOK, writeOK) ==
    /\ Pending("put")
    /\ xferReq.payloadOK
    /\ DecodeString(xferReq.data).ok
    /\ LET decoded == DecodeString(xferReq.data)
           p == xferReq.path
           opened == openOK /\ remoteFs[p].kind # "dir"
       IN  IF ~opened
           THEN /\ sftpCalls' = <<Call("OpenFile", FALSE)>>
                /\ remoteFs' = remoteFs
                /\ xferOut' = ErrorMsg("create")
           ELSE /\ sftpCalls' = <<Call("OpenFile", TRUE), Call("Write", writeOK)>>
                /\ remoteFs' = [remoteFs EXCEPT ![p] =
                       [kind |-> "file", data |-> IF writeOK THEN decoded.bytes ELSE <<>>]]
                /\ xferOut' = IF writeOK THEN <<"done", "put">> ELSE ErrorMsg("write")
    /\ UNCHANGED <<xferReq, xferRest>>

\* Mutant of rm_Answer: no file removal after a failed directory removal.
rm_Answer_NoFallback(dirOK, fileOK) ==
    /\ Pending("rm")
    /\ LET p == xferReq.path
           rmdirOK == dirOK /\ remoteFs[p].kind = "dir"
       IN  IF ~xferReq.payloadOK
           THEN /\ xferOut' = ErrorMsg("invalid rm payload")
                /\ UNCHANGED <<remoteFs, sftpCalls>>
           ELSE /\ sftpCalls' = <<Call("RemoveDirectory", rmdirOK)>>
                /\ remoteFs' = IF rmdirOK THEN [remoteFs EXCEPT ![p] = NoEntry]
                               ELSE remoteFs
                /\ xferOut' = IF rmdirOK THEN <<"done", "rm">> ELSE ErrorMsg("remove")
    /\ UNCHANGED <<xferReq, xferRest>>

\* case msgRM: RemoveDirectory succeeds on a directory only; when it fails,
\* Remove is tried, which succeeds on an existing path only.
rm_Answer(dirOK, fileOK) ==
    /\ Pending("rm")
    /\ LET p == xferReq.path
           rmdirOK == dirOK /\ remoteFs[p].kind = "dir"
           removeOK == fileOK /\ remoteFs[p].kind # "none"
       IN  IF ~xferReq.payloadOK
           THEN /\ xferOut' = ErrorMsg("invalid rm payload")
                /\ UNCHANGED <<remoteFs, sftpCalls>>
           ELSE IF rmdirOK
           THEN /\ sftpCalls' = <<Call("RemoveDirectory", TRUE)>>
                /\ remoteFs' = [remoteFs EXCEPT ![p] = NoEntry]
                /\ xferOut' = <<"done", "rm">>
           ELSE /\ sftpCalls' = <<Call("RemoveDirectory", FALSE), Call("Remove", removeOK)>>
                /\ remoteFs' = IF removeOK THEN [remoteFs EXCEPT ![p] = NoEntry]
                               ELSE remoteFs
                /\ xferOut' = IF removeOK THEN <<"done", "rm">> ELSE ErrorMsg("remove")
    /\ UNCHANGED <<xferReq, xferRest>>

TransferNext ==
    \/ \E r \in XferRequests : xfer_Read(r)
    \/ put_Rejected
    \/ \E openOK, writeOK \in BOOLEAN : put_Write(openOK, writeOK)
    \/ \E dirOK, fileOK \in BOOLEAN : rm_Answer(dirOK, fileOK)

TransferSpec == Init /\ [][TransferNext]_vars

\* Data that is not base64: its length is not a multiple of four, or it has
\* a character that is neither a digit nor the padding, or padding anywhere
\* but in the last one or two places.
InvalidBase64(s) ==
    \/ Len(s) % 4 # 0
    \/ \E i \in DOMAIN s : s[i] \notin B64Digits \cup {"="}
    \/ \E i \in DOMAIN s : s[i] = "=" /\ i < Len(s) - 1
    \/ Len(s) > 0 /\ s[Len(s)] # "=" /\ \E i \in DOMAIN s : s[i] = "="

\* C36: the step that answers a put whose data is not valid base64 answers
\* with an error, leaves the remote file system as it was and calls nothing
\* on the SFTP client; and no put with such data ever has a file opened.
C36_BadDataLeavesFile ==
    /\ [][(Pending("put") /\ xferReq.payloadOK /\ InvalidBase64(xferReq.data)
            /\ xferOut' # <<>>) =>
               /\ xferOut' = ErrorMsg("invalid base64 data")
               /\ remoteFs' = remoteFs
               /\ sftpCalls' = <<>>]_vars
    /\ []((xferReq.type = "put" /\ sftpCalls # <<>>) => ~InvalidBase64(xferReq.data))

\* A put for the existing file with a character outside the alphabet was
\* answered with the error, and the file still holds what it held.
C36_Witness ==
    /\ xferReq.type = "put" /\ xferReq.path = "/f"
    /\ xferReq.data = <<"Q", "Q", "!", "=">>
    /\ xferOut = ErrorMsg("invalid base64 data")
    /\ remoteFs["/f"] = InitialFs["/f"]

Answered(type) == xferReq.type = type /\ xferReq.payloadOK /\ xferOut # <<>>

\* C37: an answered rm has tried the directory removal first, has tried the
\* file removal exactly when the directory removal failed, is answered done
\* when one of the attempts succeeded and error when all failed.
C37_RmdirThenRemove ==
    Answered("rm") =>
        /\ Len(sftpCalls) \in {1, 2}
        /\ sftpCalls[1].op = "RemoveDirectory"
        /\ Len(sftpCalls) = 2 <=> ~sftpCalls[1].ok
        /\ Len(sftpCalls) = 2 => sftpCalls[2].op = "Remove"
        /\ xferOut = <<"done", "rm">> <=> \E i \in DOMAIN sftpCalls : sftpCalls[i].ok
        /\ xferOut = ErrorMsg("remove") <=> \A i \in DOMAIN sftpCalls : ~sftpCalls[i].ok

\* An rm of a file: the directory removal failed, the file removal succeeded
\* and the request was answered done.
C37_Witness ==
    /\ Answered("rm")
    /\ xferReq.path = "/f"
    /\ sftpCalls = <<Call("RemoveDirectory", FALSE), Call("Remove", TRUE)>>
    /\ xferOut = <<"done", "rm">>
    /\ remoteFs["/f"] = NoEntry

(***************************************************************************)
(* Mandatory two-factor setup at login (SetupSpec)                         *)
(*                                                                         *)
(* The user holds a totp_pending token and has run setup: the secret is    *)
(* stored, two-factor authentication is not enabled yet.  The clock, the   *)
(* used codes and their cleanup are those of the one-time code check.      *)
(***************************************************************************)
SetupSecret == "s1"

\* ValidateTOTP(code, secret) called by one request: the code must be valid
\* now and not stored as used.
ValidateTOTP_Accepts(code, secret) ==
    /\ totpValidate(code, secret, clock)
    /\ ~usedCodes[TotpKey(code, secret)].stored

\* usedCodes after that call: an accepted code is stored with its expiry.
ValidateTOTP_Store(code, secret) ==
    IF ValidateTOTP_Accepts(code, secret)
    THEN [usedCodes EXCEPT ![TotpKey(code, secret)] =
             [stored |-> TRUE, expiry |-> clock + UsedTTL]]
    ELSE usedCodes

\* handleSetupSubmit: the form is submitted with the code typed.
handleSetupSubmit(code) ==
    /\ setupPc = "form"
    /\ setupCode' = code
    /\ setupPc' = "enable"
    /\ UNCHANGED <<totpEnabled, setupStatus, totpVars, setupRest>>

\* await totpApi.enable(totpCode, totpToken), served by TOTPHandler.Enable.
Setup_Enable(dbOK) ==
    /\ setupPc = "enable"
    /\ cleanupOn' = TRUE
    /\ usedCodes' = ValidateTOTP_Store(setupCode, SetupSecret)
    /\ LET accepted == ValidateTOTP_Accepts(setupCode, SetupSecret) IN
       /\ setupStatus' = IF ~accepted THEN 401 ELSE IF dbOK THEN 200 ELSE 500
       /\ totpEnabled' = (accepted /\ dbOK)
       /\ setupPc' = IF accepted /\ dbOK THEN "verify" ELSE "error"
    /\ UNCHANGED <<setupCode, clock, totpCall, accepts, setupRest>>

\* Mutant of Setup_Verify: the code is checked with totp.Validate alone.
Setup_Verify_NoReplayCheck(dbOK) ==
    /\ setupPc = "verify"
    /\ cleanupOn' = TRUE
    /\ usedCodes' = usedCodes
    /\ LET accepted == totpValidate(setupCode, SetupSecret, clock) IN
       /\ setupStatus' = IF ~dbOK \/ ~totpEnabled THEN 400
                         ELSE IF accepted THEN 200 ELSE 401
       /\ setupPc' = IF dbOK /\ totpEnabled /\ accepted THEN "loggedIn" ELSE "error"
    /\ UNCHANGED <<setupCode, totpEnabled, clock, totpCall, accepts, setupRest>>

\* const { data } = await totpApi.verify(totpToken, totpCode), served by
\* TOTPHandler.Verify, then completeLogin(data).
Setup_Verify(dbOK) ==
    /\ setupPc = "verify"
    /\ IF dbOK /\ totpEnabled
       THEN /\ cleanupOn' = TRUE
            /\ usedCodes' = ValidateTOTP_Store(setupCode, SetupSecret)
            /\ LET accepted == ValidateTOTP_Accepts(setupCode, SetupSecret) IN
               /\ setupStatus' = IF accepted THEN 200 ELSE 401
               /\ setupPc' = IF accepted THEN "loggedIn" ELSE "error"
       ELSE /\ setupStatus' = 400
            /\ setupPc' = "error"
            /\ UNCHANGED <<usedCodes, cleanupOn>>
    /\ UNCHANGED <<setupCode, totpEnabled, clock, totpCall, accepts, setupRest>>

SetupNext ==
    \/ \E code \in TotpCodes : handleSetupSubmit(code)
    \/ \E dbOK \in BOOLEAN : Setup_Enable(dbOK)
    \/ \E dbOK \in BOOLEAN : Setup_Verify(dbOK)
    \/ Tick
    \/ \E k \in TotpKeys : Cleanup(k)

SetupSpec == Init /\ [][SetupNext]_vars

\* C32: once enable has accepted the code, the verify call that follows
\* with the same code, when the database answers, is accepted and the flow
\* ends logged in.
C32_VerifyAcceptedAfterEnable ==
    [][(setupPc = "verify" /\ setupPc' # "verify" /\ setupStatus' # 400) =>
          setupPc' = "loggedIn"]_vars

\* What the code does instead: the flow never ends logged in.
SetupNeverLogsIn == setupPc # "loggedIn"

(***************************************************************************)
(* The users table: Init, Register and DeleteUser (AccountsSpec)           *)
(*                                                                         *)
(* Every database call is one statement on the pool, so requests           *)
(* interleave between their statements.                                    *)
(***************************************************************************)
Emails == {"e1", "e2"}
RegisterEmail == "e3"

Account(id, email, admin) == [id |-> id, email |-> email, admin |-> admin]
Admins == {a \in accounts : a.admin}
InUse(email) == \E a \in accounts : a.email = email
Finish(status) == [pc |-> "done", status |-> status]

\* InitHandler.Init up to its test of count: db.CountUsers, 409 when a user
\* exists.
Init_CountUsers(c) ==
    /\ acctCall[c].pc = "idle"
    /\ acctCall' = [acctCall EXCEPT ![c] =
                      IF Cardinality(accounts) > 0 THEN Finish(409)
                      ELSE [pc |-> "create", status |-> 0]]
    /\ UNCHANGED <<accounts, delCall, createdByInit, deleted, acctRest>>

\* InitHandler.Init after the test: db.CreateAdminUser inserts an admin row
\* unless the email is taken (email is UNIQUE).
Init_CreateAdminUser(c, email) ==
    /\ acctCall[c].pc = "create"
    /\ IF InUse(email)
       THEN /\ acctCall' = [acctCall EXCEPT ![c] = Finish(500)]
            /\ UNCHANGED <<accounts, createdByInit>>
       ELSE /\ accounts' = accounts \cup {Account(c, email, TRUE)}
            /\ createdByInit' = createdByInit + 1
            /\ acctCall' = [acctCall EXCEPT ![c] = Finish(201)]
    /\ UNCHANGED <<delCall, deleted, acctRest>>

\* AuthHandler.Register: db.CreateUser inserts a row that is not admin.
Register(c) ==
    /\ c \notin InitCallers
    /\ acctCall[c].pc = "idle"
    /\ IF InUse(RegisterEmail)
       THEN /\ acctCall' = [acctCall EXCEPT ![c] = Finish(409)]
            /\ accounts' = accounts
       ELSE /\ accounts' = accounts \cup {Account(c, RegisterEmail, FALSE)}
            /\ acctCall' = [acctCall EXCEPT ![c] = Finish(201)]
    /\ UNCHANGED <<delCall, createdByInit, deleted, acctRest>>

\* AdminHandler.DeleteUser called by an admin: the test against deleting
\* oneself.
DeleteUser(d, caller, target) ==
    /\ delCall[d].pc = "idle"
    /\ caller \in {a.id : a \in Admins}
    /\ delCall' = [delCall EXCEPT ![d] =
                     [pc |-> IF caller = target THEN "done" ELSE "get",
                      caller |-> caller, target |-> target,
                      status |-> IF caller = target THEN 400 ELSE 0]]
    /\ UNCHANGED <<accounts, acctCall, createdByInit, deleted, acctRest>>

Row(id) == CHOOSE a \in accounts : a.id = id

\* db.GetUserByID(targetID): 404 when there is no such row; CountAdmins is
\* asked only for an admin.
DeleteUser_GetUserByID(d) ==
    /\ delCall[d].pc = "get"
    /\ LET t == delCall[d].target IN
       delCall' = [delCall EXCEPT ![d] =
                     IF \A a \in accounts : a.id # t
                     THEN [@ EXCEPT !.pc = "done", !.status = 404]
                     ELSE [@ EXCEPT !.pc = IF Row(t).admin THEN "count" ELSE "delete"]]
    /\ UNCHANGED <<accounts, acctCall, createdByInit, deleted, acctRest>>

\* db.CountAdmins: 400 "cannot delete the last admin" when count <= 1.
DeleteUser_CountAdmins(d) ==
    /\ delCall[d].pc = "count"
    /\ delCall' = [delCall EXCEPT ![d] =
                     IF Cardinality(Admins) <= 1
                     THEN [@ EXCEPT !.pc = "done", !.status = 400]
                     ELSE [@ EXCEPT !.pc = "delete"]]
    /\ UNCHANGED <<accounts, acctCall, createdByInit, deleted, acctRest>>

\* db.DeleteUserByID(targetID): 404 when no row was affected.
DeleteUser_DeleteUserByID(d) ==
    /\ delCall[d].pc = "delete"
    /\ LET t == delCall[d].target IN
       IF \E a \in accounts : a.id = t
       THEN /\ accounts' = accounts \ {Row(t)}
            /\ deleted' = deleted \cup {<<delCall[d].caller, t>>}
            /\ delCall' = [delCall EXCEPT ![d] = [@ EXCEPT !.pc = "done", !.status = 204]]
       ELSE /\ delCall' = [delCall EXCEPT ![d] = [@ EXCEPT !.pc = "done", !.status = 404]]
            /\ UNCHANGED <<accounts, deleted>>
    /\ UNCHANGED <<acctCall, createdByInit, acctRest>>

AccountsNext ==
    \/ \E c \in InitCallers : Init_CountUsers(c)
    \/ \E c \in InitCallers, email \in Emails : Init_CreateAdminUser(c, email)
    \/ \E c \in AcctCallers : Register(c)
    \/ \E d \in DelCallers, caller, target \in AcctCallers : DeleteUser(d, caller, target)
    \/ \E d \in DelCallers : DeleteUser_GetUserByID(d)
    \/ \E d \in DelCallers : DeleteUser_CountAdmins(d)
    \/ \E d \in DelCallers : DeleteUser_DeleteUserByID(d)

AccountsSpec == Init /\ [][AccountsNext]_vars

\* C33: Init creates at most one account, and an account is created by
\* Init only while the users table is empty.
C33_InitCreatesOnce ==
    /\ [](createdByInit <= 1)
    /\ [][createdByInit' # createdByInit => accounts = {}]_vars

\* C34: once an admin exists an admin remains, and no deletion has the
\* caller as its target.
C34_AnAdminRemains ==
    /\ createdByInit > 0 => Admins # {}
    /\ \A p \in deleted : p[1] # p[2]

(***************************************************************************)
(* Rate limiter of /api/auth (RateSpec)                                    *)
(*                                                                         *)
(* allow runs under rl.mu, and so does one pass of the cleanup: each is    *)
(* one step.                                                               *)
(***************************************************************************)
\* mw.RateLimit(10, time.Minute), scaled: Limit requests per Window ticks.
Limit == 2
Window == 2
MaxRateClock == 3

\* The timestamps of times that are after cutoff, in order.
After(times, cutoff) == SelectSeq(times, LAMBDA t : t > cutoff)

\* Time passes.
Rate_Tick ==
    /\ rlNow < MaxRateClock
    /\ rlNow' = rlNow + 1
    /\ UNCHANGED <<requests, allowedAt, rlResult, rateRest>>

\* Mutant of allow: the test is len(filtered) > rl.limit.
allow_OneMore(ip) ==
    /\ LET filtered == After(requests[ip], rlNow - Window) IN
       IF Len(filtered) > Limit
       THEN /\ requests' = [requests EXCEPT ![ip] = filtered]
            /\ rlResult' = [ip |-> ip, ok |-> FALSE]
            /\ allowedAt' = allowedAt
       ELSE /\ requests' = [requests EXCEPT ![ip] = Append(filtered, rlNow)]
            /\ rlResult' = [ip |-> ip, ok |-> TRUE]
            /\ allowedAt' = [allowedAt EXCEPT ![ip] = Append(@, rlNow)]
    /\ UNCHANGED <<rlNow, rateRest>>

\* rl.allow(ip): the timestamps after now - window are kept; the request is
\* refused when there are limit of them, recorded and allowed otherwise.
allow(ip) ==
    /\ LET filtered == After(requests[ip], rlNow - Window) IN
       IF Len(filtered) >= Limit
       THEN /\ requests' = [requests EXCEPT ![ip] = filtered]
            /\ rlResult' = [ip |-> ip, ok |-> FALSE]
            /\ allowedAt' = allowedAt
       ELSE /\ requests' = [requests EXCEPT ![ip] = Append(filtered, rlNow)]
            /\ rlResult' = [ip |-> ip, ok |-> TRUE]
            /\ allowedAt' = [allowedAt EXCEPT ![ip] = Append(@, rlNow)]
    /\ UNCHANGED <<rlNow, rateRest>>

\* One pass of the cleanup goroutine, at a tick of time.Tick(window): every
\* address keeps its timestamps after now - window (an address with none
\* left is deleted from the map, which reads as the empty list).
Rate_Cleanup ==
    /\ rlNow > 0
    /\ \E ip \in Addresses : requests[ip] # After(requests[ip], rlNow - Window)
    /\ requests' = [ip \in Addresses |-> After(requests[ip], rlNow - Window)]
    /\ UNCHANGED <<rlNow, allowedAt, rlResult, rateRest>>

RateNext ==
    \/ Rate_Tick
    \/ \E ip \in Addresses : allow(ip)
    \/ Rate_Cleanup

RateSpec == Init /\ [][RateNext]_vars

\* The number of requests of the address allowed in the window that ends at
\* time T: the times t with T - Window < t <= T.
AllowedIn(ip, T) ==
    Cardinality({i \in DOMAIN allowedAt[ip] :
                    allowedAt[ip][i] > T - Window /\ allowedAt[ip][i] <= T})

IsSuffix(s, t) == Len(s) <= Len(t) /\ s = SubSeq(t, Len(t) - Len(s) + 1, Len(t))

\* C35: for every address, no window of length Window holds more than Limit
\* allowed requests; a call of allow returns true only when fewer than Limit
\* allowed requests of the address were inside the window; the timestamps
\* kept are timestamps of allowed requests only; and every allowed request
\* still inside the window is kept, whatever the cleanup did.
C35_AtMostLimitPerWindow ==
    /\ [](\A ip \in Addresses : \A T \in 0..rlNow : AllowedIn(ip, T) <= Limit)
    /\ [][\A ip \in Addresses :
            allowedAt'[ip] # allowedAt[ip] => AllowedIn(ip, rlNow) < Limit]_vars
    /\ [](\A ip \in Addresses :
            /\ IsSuffix(requests[ip], allowedAt[ip])
            /\ IsSuffix(After(allowedAt[ip], rlNow - Window), requests[ip]))

\* An address was refused with Limit requests in its window, after earlier
\* requests of it had left the window, while the other address was served.
C35_Witness ==
    /\ rlResult = [ip |-> "ip1", ok |-> FALSE]
    /\ AllowedIn("ip1", rlNow) = Limit
    /\ Len(allowedAt["ip1"]) > Limit
    /\ allowedAt["ip2"] # <<>>

(***************************************************************************)
(* Response interceptor of the API client (AxiosSpec)                      *)
(*                                                                         *)
(* The page runs one handler at a time: each run of the interceptor up to  *)
(* its next await is one step.  The refresh call is made with the same     *)
(* client, so its answer passes through the same interceptor.              *)
(***************************************************************************)
Statuses == {200, 401, 500}

Settled(r) == reqSt[r].st \in {"resolved", "rejected"}
InFlight(r) == reqSt[r].st \in {"sent", "resent"}

\* The page calls api(config).
Api_Send(r) ==
    /\ ~loggedOut
    /\ reqSt[r].st = "idle"
    /\ reqSt' = [reqSt EXCEPT ![r].st = "sent"]
    /\ UNCHANGED <<isRefreshing, queue, rfSt, refresher, loggedOut, axiosRest>>

\* The answer to a request of the page reaches the interceptor: 2xx
\* resolves; anything but a first 401 rejects; a first 401 sets _retry and
\* either queues a callback (a refresh is running) or starts the refresh.
Api_Response(r, status) ==
    /\ ~loggedOut
    /\ InFlight(r)
    /\ IF status = 200
       THEN /\ reqSt' = [reqSt EXCEPT ![r].st = "resolved"]
            /\ UNCHANGED <<isRefreshing, queue, rfSt, refresher>>
       ELSE IF status # 401 \/ reqSt[r].retry
       THEN /\ reqSt' = [reqSt EXCEPT ![r].st = "rejected"]
            /\ UNCHANGED <<isRefreshing, queue, rfSt, refresher>>
       ELSE IF isRefreshing
       THEN /\ reqSt' = [reqSt EXCEPT ![r] = [st |-> "queued", retry |-> TRUE]]
            /\ queue' = Append(queue, r)
            /\ UNCHANGED <<isRefreshing, rfSt, refresher>>
       ELSE /\ reqSt' = [reqSt EXCEPT ![r] = [st |-> "refreshing", retry |-> TRUE]]
            /\ isRefreshing' = TRUE
            /\ rfSt' = "sent"
            /\ refresher' = r
            /\ queue' = queue
    /\ UNCHANGED <<loggedOut, axiosRest>>

\* The queued callbacks run: each request of the page in the queue is sent
\* again with the new token.
Flushed(st) ==
    [r \in ApiRequests |->
        IF r = refresher \/ (st[r].st = "queued" /\ \E i \in DOMAIN queue : queue[i] = r)
        THEN [st[r] EXCEPT !.st = "resent"]
        ELSE st[r]]

\* The answer to api.post('/auth/refresh') reaches the interceptor.  200:
\* the await returns, the token is stored, the queue is flushed, the
\* original is sent again.  401: the call is a first 401 while isRefreshing
\* is true, so its own callback is queued and the await does not return.
\* Any other failure: catch, logout, the original is rejected.
Refresh_Response(status) ==
    /\ rfSt = "sent"
    /\ IF status = 200
       THEN /\ rfSt' = "ok"
            /\ reqSt' = Flushed(reqSt)
            /\ queue' = <<>>
            /\ isRefreshing' = FALSE
            /\ refresher' = ""
            /\ loggedOut' = loggedOut
       ELSE IF status = 401
       THEN /\ rfSt' = "queued"
            /\ queue' = Append(queue, RefreshCall)
            /\ UNCHANGED <<reqSt, isRefreshing, refresher, loggedOut>>
       ELSE /\ rfSt' = "failed"
            /\ reqSt' = [reqSt EXCEPT ![refresher].st = "rejected"]
            /\ loggedOut' = TRUE
            /\ isRefreshing' = FALSE
            /\ refresher' = ""
            /\ queue' = queue
    /\ UNCHANGED axiosRest

AxiosNext ==
    \/ \E r \in ApiRequests : Api_Send(r)
    \/ \E r \in ApiRequests, status \in Statuses : Api_Response(r, status)
    \/ \E status \in Statuses : Refresh_Response(status)

AxiosSpec == Init /\ [][AxiosNext]_vars

\* Every request in flight is answered, and so is the refresh call.
AxiosFairSpec ==
    /\ AxiosSpec
    /\ \A r \in ApiRequests : WF_vars(\E status \in Statuses : Api_Response(r, status))
    /\ WF_vars(\E status \in Statuses : Refresh_Response(status))

\* C39: a refresh call is in flight only while isRefreshing is set and one
\* request awaits it; every request of the page that was sent is eventually
\* resolved or rejected, also those queued behind a refresh; and once the
\* refresh call has failed, with a 401 or otherwise, the user is eventually
\* logged out.
C39_EveryRequestSettles ==
    /\ []((rfSt = "sent") => (isRefreshing /\ refresher \in ApiRequests))
    /\ \A r \in ApiRequests : (reqSt[r].st # "idle") ~> Settled(r)
    /\ (rfSt \in {"queued", "failed"}) ~> loggedOut

====
